---- MODULE Spec2Model ----
(***************************************************************************)
(* Chart-snapshot capture services of TradingviewSnapshotBot.              *)
(*                                                                         *)
(* The repository holds several stand-alone server programs.  A run of     *)
(* the model is a run of ONE of them, chosen in Init (variable program):   *)
(*                                                                         *)
(*   "micro"  src/unnamed/part_000  TradingView Snapshot Microservice      *)
(*            (activeCaptures semaphore, launchBrowserIfNeeded,            *)
(*             captureWithFallback, /run /snapshot /start-browser          *)
(*             /close-browser)                                             *)
(*   "iqtv"   src/unnamed/part_002  IQ Option + TradingView service        *)
(*            (AsyncQueue, BrowserManager, screenshotIq/screenshotTv,      *)
(*             attemptAutoScreenshot, /run /start-browser)                 *)
(*   "bot"    src/server.js         Telegram bot, the HTTP client of a     *)
(*            snapshot service (fetch_snapshot_png_any)                    *)
(*   "shared" src/index.js          TradingView Snapshot Bot: one browser  *)
(*            and one page for all requests (ensureBrowser,                *)
(*            captureTradingView, /run)                                    *)
(*                                                                         *)
(* One action is one run-to-next-await segment of a handler.  Consecutive  *)
(* awaits on a single page (setUserAgent .. screenshot .. close) touch no  *)
(* state shared with other handlers and are taken in one step; the step's  *)
(* outcome parameter says which of them threw.                             *)
(***************************************************************************)
EXTENDS Integers, Sequences, FiniteSets, TLC

(* ----------------------------- bounds ---------------------------------- *)
NumRequests == 3      \* capture requests (GET /run, /snapshot, /snapshot/:pair)
NumStarts == 1        \* GET /start-browser requests
MaxBrowsers == 2      \* browser processes created per run
LoadFaults == 1       \* failures the environment injects, many-requests runs
SessionFaults == 2    \* failures the environment injects, session runs
NumBurst == 4         \* capture requests of a burst run (no failure injected)
NumShared == 2        \* capture requests of a run of index.js
MaxIdleTicks == 2     \* clock ticks counted while the browser sits idle
ChainFaults == 6      \* failures the environment injects, one-request runs
MaxRawLen == 3        \* tokens of a raw symbol string

(* ------------------------ program constants ---------------------------- *)
MAX_CONCURRENT_CAPTURES == 2
MAX_CONCURRENT_PAGES == 2

(* --------------------------- process ids ------------------------------- *)
Boot == << "boot", 1 >>                     \* app.listen callback (micro)
Reqs ==
  { << "req", i >> : i \in 1 .. (IF NumBurst > NumRequests THEN NumBurst ELSE NumRequests) }
Starts == { << "start", i >> : i \in 1 .. NumStarts }
Closer == << "close", 1 >>                  \* GET /close-browser (micro)
Procs == {Boot, Closer} \cup Reqs \cup Starts

NoBrowser == 0                              \* JavaScript null
BrowserIds == 1 .. MaxBrowsers

VARIABLES
  program,           \* which server program this run executes
  scenario,          \* "load": NumRequests capture requests; "session": one
                     \* capture request, /start-browser and /close-browser;
                     \* "burst": NumBurst capture requests, nothing fails;
                     \* "chain": one capture request, up to ChainFaults
                     \* failures, and the clock
  chrome,            \* chrome[b]: "none" | "running" | "dead"  (the OS process)
  pagesOpen,         \* pagesOpen[b]: pages open in browser b
  launches,          \* puppeteer.launch invocations so far
  launchesInFlight,  \* puppeteer.launch invocations not yet settled
  faults,            \* environment failures injected so far
  pc,                \* pc[p]: position of handler p
  cands,             \* cands[r]: candidate list of request r (after dedup)
  tried,             \* tried[r]: candidates attempted so far, in order
  outcome,           \* outcome[r]: per attempted candidate "ok" | "fail", "run" while in flight
  br,                \* br[p]: browser handle the ensure operation returned to p
  page,              \* page[r]: browser that holds r's open page, NoBrowser if none
  resp,              \* resp[p]: HTTP response sent, NoResp if none yet
  activeCaptures,    \* part_000:131
  captureQueue,      \* part_000:132
  browser,           \* part_000:166
  browserReady,      \* part_000:167
  browserLaunching,  \* part_000:168
  closeTarget,       \* browser on which closeBrowser called close()
  mgr_browser,       \* part_002:309  BrowserManager.browser
  mgr_launching,     \* part_002:311  BrowserManager.launching, the state of that promise
  mgr_launchValue,   \* the browser that promise resolved with
  queue_active,      \* part_002:287  AsyncQueue.active
  queue_q,           \* part_002:288  AsyncQueue.q
  urlIdx,            \* server.js:528  position in urls of the exchange on trial
  fetched,           \* server.js:533/539  how fetch_snapshot_png_any ended
  sharedPage,        \* index.js:55  the variable page: the one page of a browser
  pageShows,         \* pageShows[b]: the chart the page of browser b displays
  want,              \* want[r]: the chart (exchange:ticker) request r asked for
  shotBytes,         \* shotBytes[r]: byte length of the last screenshot taken for
                     \* r, against the size of a rendered chart: "none" | "full" | "short"
  idleTicks,         \* clock ticks since the manager's browser last had a page open
  asked,             \* asked[r]: the (exchange, alternates) the fallback call of r was given
  failure,           \* failure[r]: what the failure of r's fallback call tells its caller
  raw,               \* the raw symbol string handed to a resolver, as a sequence of tokens
  resolved,          \* what the resolver made of it
  reply,             \* reply[r]: the HTTP response _try_url of r got last
  cache,             \* part_002:265  _cache, the entries in the Map's insertion order
  now,               \* Date.now(), in clock ticks
  inflight,          \* inflight[k]: /run requests for key k waiting for their capture
  runs,              \* /run requests received so far
  served,            \* what the last /run response carried
  useOrder,          \* the keys put or hit so far, least recently used first
  evicted,           \* the last overflow: the key cachePut deleted and the key
                     \* that was least recently used at that moment
  LAST_SNAPSHOT_PER_CHAT,\* server.js:545  the time of the last admitted snapshot of each chat
  clock,             \* time.time(), in seconds
  fetchStarts,       \* fetchStarts[c]: the times of the last two starts of fetch_snapshot_png_any for chat c
  admitted,          \* admitted[c]: send_snapshot_photo calls past the limiter, fetch not yet started
  multiLeft,         \* multiLeft[c]: charts the running /snapmulti or /snapall of c has still to fetch
  commands,          \* commands received so far
  service_browser,   \* service.js:11  browser: the Chromium startBrowser launched last, NoBrowser for null
  chromiums,         \* Chromium processes puppeteer.launch has started
  call,              \* call[c]: where caller c of startBrowser stands
  shown,             \* the trade /trade validated and showed in the confirmation message
  callbackData,      \* part_011:202  the callback data of the 'Execute Trade' button, as tokens
  executed,          \* part_011:243-250  tradeParams handed to the UI.Vision macro
  pendingTrade,      \* part_001:50  the signal that waits for a decision, NoSignal for null
  confidence,        \* confidence[s]: the confidence of signal s, 0 while s has not arrived
  announcing,        \* the signals whose 'Auto trade executed' message is being sent
  placed,            \* placed[s]: the calls of triggerTradeUIVision for signal s
  decide,            \* decide[q]: /confirm-trade request q: where it stands, its decision and the pendingTrade it found
  wiped,             \* the signals a decision erased from pendingTrade although they were stored after it arrived
  USER_FSM,          \* server.js:574  the keys of USER_FSM[uid] beside "flow", for one user
  chosen,            \* the selections the user made since the flow was last reset or a trade was executed
  trades,            \* the trades execute_trade_and_snapshot has sent
  autoTradeEnabled,  \* part_008:132, the /auto switch
  hook,              \* per TradingView signal: how far its /webhook request and retry chain got
  listeners,         \* help.js:32, per chat: the once('message') listeners its /trade prompts registered
  prompting,         \* help.js:29, per chat: the prompt messages being sent
  messages,          \* the messages the bot has received
  recorded           \* help.js:34, the trades inserted: whose prompt, whose message

vars == << program, scenario, chrome, pagesOpen, launches, launchesInFlight, faults, pc, cands,
           tried, outcome, br, page, resp, activeCaptures,
           captureQueue, browser, browserReady, browserLaunching, closeTarget,
           mgr_browser, mgr_launching, mgr_launchValue, queue_active, queue_q,
           urlIdx, fetched, sharedPage, pageShows, want, shotBytes, idleTicks, asked, failure,
           raw, resolved, reply, cache, now, inflight, runs, served, useOrder, evicted,
           LAST_SNAPSHOT_PER_CHAT, clock, fetchStarts, admitted, multiLeft, commands,
           service_browser, chromiums, call,
           shown, callbackData, executed,
           pendingTrade, confidence, announcing, placed, decide, wiped,
           USER_FSM, chosen, trades,
           autoTradeEnabled, hook,
           listeners, prompting, messages, recorded >>

envVars == << chrome, pagesOpen, launches, launchesInFlight, faults >>
browserVars == << browser, browserReady, browserLaunching >>
slotVars == << activeCaptures, captureQueue >>
reqVars == << cands, tried, outcome, page >>
queueVars == << queue_active, queue_q >>
mgrVars == << mgr_browser, mgr_launching, mgr_launchValue >>
iqtvVars == << mgr_browser, mgr_launching, mgr_launchValue, queue_active, queue_q >>
microVars == << activeCaptures, captureQueue, browser, browserReady, browserLaunching, closeTarget >>
botVars == << urlIdx, fetched, reply >>
sharedVars == << sharedPage, pageShows, want >>
cacheVars == << cache, now, inflight, runs, served, useOrder, evicted >>
rateVars == << LAST_SNAPSHOT_PER_CHAT, clock, fetchStarts, admitted, multiLeft, commands >>
serviceVars == << service_browser, chromiums, call >>
confirmVars == << shown, callbackData, executed >>
pendingVars == << pendingTrade, confidence, announcing, placed, decide, wiped >>
fsmVars == << USER_FSM, chosen, trades >>
autoVars == << autoTradeEnabled, hook >>
promptVars == << listeners, prompting, messages, recorded >>
\* the state of the programs beside the capture services
sideVars == << cacheVars, rateVars, serviceVars, confirmVars, pendingVars, fsmVars, autoVars, promptVars >>
\* the state of the capture services, the bot's fetch and the resolvers
captureVars == << chrome, pagesOpen, launches, launchesInFlight, faults, pc, cands,
                  tried, outcome, br, page, resp, activeCaptures,
                  captureQueue, browser, browserReady, browserLaunching, closeTarget,
                  mgr_browser, mgr_launching, mgr_launchValue, queue_active, queue_q,
                  urlIdx, fetched, sharedPage, pageShows, want, shotBytes, idleTicks, asked,
                  failure, raw, resolved, reply >>

NoChart == "about:blank"

NotFetched == [state |-> "none", ex |-> ""]

NoResp == [status |-> 0, body |-> "none", used |-> "", navFailed |-> FALSE]

\* no HTTP response yet
NoReply == [status |-> 0, ct |-> "", body |-> "none"]

\* no resolver has run
NotResolved == [by |-> "none"]

\* no failure returned: neither a candidate's error nor a candidate's name
NoFailure == [errors |-> << >>, names |-> << >>]

\* the error the capture of candidate ex threw (or returned)
ErrOf(ex) == << "error", ex >>

\* a bug: only the first error caught is kept
FirstErr(r) == ErrOf(tried[r][1])

\* `lastErr = err` (part_000:507), `last_err = err` (server.js:534): assigned
\* at every failed attempt, so what it holds is the error of the latest one
LastErr(r) == ErrOf(tried[r][Len(tried[r])])

Response(status, body, used, nf) ==
  [status |-> status, body |-> body, used |-> used, navFailed |-> nf]

(* ------------------------- exchange fallback --------------------------- *)
\* a bug: the first two fallbacks in the other order
EXCHANGE_FALLBACKS_Swapped == << "OANDA", "FX_IDC", "FOREXCOM", "FXCM", "IDC" >>

\* part_000:285, TV_EXCHANGE_FALLBACKS unset
EXCHANGE_FALLBACKS == << "FX_IDC", "OANDA", "FOREXCOM", "FXCM", "IDC" >>

ToUpperCase(s) ==
  CASE s = "fx" -> "FX"
    [] s = "fx_idc" -> "FX_IDC"
    [] s = "oanda" -> "OANDA"
    [] s = "usd" -> "USD"
    [] OTHER -> s

\* a bug: the seen-set is not consulted
RECURSIVE DedupFromNoSeen(_, _, _)
DedupFromNoSeen(allEx, i, dedup) ==
  IF i > Len(allEx) THEN dedup
  ELSE DedupFromNoSeen(allEx, i + 1, Append(dedup, ToUpperCase(allEx[i])))

RECURSIVE DedupFrom(_, _, _)
DedupFrom(allEx, i, dedup) ==
  IF i > Len(allEx) THEN dedup
  ELSE LET exUp == ToUpperCase(allEx[i])
       IN  IF \E j \in 1 .. Len(dedup) : dedup[j] = exUp
           THEN DedupFrom(allEx, i + 1, dedup)
           ELSE DedupFrom(allEx, i + 1, Append(dedup, exUp))

Dedup(exchange, altExchanges) == DedupFrom(<< exchange >> \o altExchanges, 1, << >>)

\* exchange= of /run, ex= of /snapshot (upper-cased by the route), with the
\* alternates the route passes on
DefaultConf == << "FX", EXCHANGE_FALLBACKS >>

AllConfs == { DefaultConf, << "OANDA", EXCHANGE_FALLBACKS >> }

ConfChoices ==
  IF scenario = "chain" THEN AllConfs
  ELSE { DefaultConf }

MaxFaults ==
  IF scenario = "load" THEN LoadFaults
  ELSE IF scenario = "session" THEN SessionFaults
  ELSE IF scenario = "chain" THEN ChainFaults
  ELSE 0

Active ==
  IF program = "shared" THEN { << "req", i >> : i \in 1 .. NumShared }
  ELSE IF scenario = "load" THEN { << "req", i >> : i \in 1 .. NumRequests }
  ELSE IF scenario = "burst" THEN { << "req", i >> : i \in 1 .. NumBurst }
  ELSE IF scenario = "chain" THEN { << "req", 1 >> }
  ELSE Starts \cup {Closer, << "req", 1 >>}

SetLast(seq, v) == [seq EXCEPT ![Len(seq)] = v]

\* the browser the manager of the running program holds
ManagerBrowser == IF program = "micro" THEN browser ELSE mgr_browser

\* A handler resumed by a settled promise (a granted slot, a caught
\* exception running on into the next loop round, an awaited launch promise
\* that has settled) runs as a microtask: before the event loop delivers the
\* next timer, HTTP request or browser message.
MicrotaskPending ==
  \E p \in Procs :
    \/ pc[p] = "attempt"
    \/ pc[p] = "awaitLaunch" /\ mgr_launching \in { "resolved", "rejected" }

\* The capture requests of a run are numbered in their order of arrival.
ArrivesNext(r) == \A q \in Reqs : q[2] < r[2] => pc[q] # "idle"

\* So are the /start-browser requests.
StartsNext(s) == \A q \in Starts : q[2] < s[2] => pc[q] # "idle"

\* a bug: the candidates are walked from the end of the list
NextCandReversed(list, n) == list[Len(list) - n]

\* the loops `for (const ex of dedup)` (part_000:491) and
\* `for (const exch of symbolInfo.tvExchList)` (part_002:499): the candidate
\* that follows n attempted ones
NextCand(list, n) == list[n + 1]

(* ======================= program "micro" (part_000) ==================== *)

\* the state beside cacheVars
besideCache == << captureVars, rateVars, serviceVars, confirmVars, pendingVars, fsmVars, autoVars, promptVars >>
\* the state beside rateVars
besideRate == << captureVars, cacheVars, serviceVars, confirmVars, pendingVars, fsmVars, autoVars, promptVars >>
\* the state beside serviceVars
besideService == << captureVars, cacheVars, rateVars, confirmVars, pendingVars, fsmVars, autoVars, promptVars >>
\* the state beside confirmVars
besideConfirm == << captureVars, cacheVars, rateVars, serviceVars, pendingVars, fsmVars, autoVars, promptVars >>
\* the state beside pendingVars
besidePending == << captureVars, cacheVars, rateVars, serviceVars, confirmVars, fsmVars, autoVars, promptVars >>
\* the state beside fsmVars
besideFsm == << captureVars, cacheVars, rateVars, serviceVars, confirmVars, pendingVars, autoVars, promptVars >>
\* the state beside autoVars
besideAuto == << captureVars, cacheVars, rateVars, serviceVars, confirmVars, pendingVars, fsmVars, promptVars >>
\* the state beside promptVars
besidePrompt == << captureVars, cacheVars, rateVars, serviceVars, confirmVars, pendingVars, fsmVars, autoVars >>
(* ------------------------- the state at rest --------------------------- *)

\* part_002:263, scaled down (50 in the source): the entries the cache may hold
CACHE_MAX == 2

\* part_002:264, in clock ticks
CACHE_TTL_MS == 1

\* the distinct cache keys the /run requests carry: one more than the cache holds
NumKeys == CACHE_MAX + 1

\* the /run requests of a run: enough to fill the cache, hit it and overflow it
NumRuns == CACHE_MAX + 2

\* the last tick of the clock: an entry put at 0 has expired by then
MaxNow == CACHE_TTL_MS + 1

Keys == 1 .. NumKeys

\* no /run response yet
NoServed == [key |-> 0, from |-> "none", age |-> 0, buf |-> "none"]

\* no overflow yet
NoEviction == [key |-> 0, lru |-> 0]

\* part_002:265: the cache is empty at start-up
CacheIdle ==
  /\ cache = << >>
  /\ now = 0
  /\ inflight = [k \in Keys |-> 0]
  /\ runs = 0
  /\ served = NoServed
  /\ useOrder = << >>
  /\ evicted = NoEviction

\* the chats that talk to the bot
Chats == { "chatA", "chatB" }

\* the commands of a run
MaxCommands == 2

\* the numbers of symbols of a /snapmulti (of ALL_PAIRS for /snapall)
PairCounts == { 1, 2 }

\* server.js:546
RATE_LIMIT_SECONDS == 3

\* the seconds the clock runs: one window of the limiter
MaxSeconds == RATE_LIMIT_SECONDS

\* time.time() at start-up: far from 0, the default of LAST_SNAPSHOT_PER_CHAT.get
StartTime == RATE_LIMIT_SECONDS

\* server.js:545-548: no chat has asked for a snapshot
RateIdle ==
  /\ LAST_SNAPSHOT_PER_CHAT = [c \in Chats |-> 0]
  /\ clock = StartTime
  /\ fetchStarts = [c \in Chats |-> << >>]
  /\ admitted = [c \in Chats |-> 0]
  /\ multiLeft = [c \in Chats |-> 0]
  /\ commands = 0

\* the callers of startBrowser: the warm-up at start-up
\* (Set-TelegramWebhook.ps1:429) and the handlers of /start-browser
\* (service.js:113) and /run (service.js:50)
Callers == { "warmup", "start-browser", "run" }

\* service.js:11: no browser at start-up
ServiceIdle ==
  /\ service_browser = NoBrowser
  /\ chromiums = 0
  /\ call = [c \in Callers |-> "idle"]

\* no trade shown, no trade executed
NoTrade == [pair |-> << >>, direction |-> "", amount |-> "", expiry |-> ""]

\* part_011: no /trade command yet
ConfirmIdle ==
  /\ shown = NoTrade
  /\ callbackData = << >>
  /\ executed = NoTrade

\* the /webhook signals and the /confirm-trade requests of a run
NumSignals == 2
NumDecisions == 2

Signals == 1 .. NumSignals
Decisions == 1 .. NumDecisions

\* JavaScript null in pendingTrade
NoSignal == 0

\* a /confirm-trade request that has not arrived
NoDecision == [pc |-> "idle", decision |-> "", found |-> NoSignal]

\* part_001:50: nothing pending at start-up
PendingIdle ==
  /\ pendingTrade = NoSignal
  /\ confidence = [s \in Signals |-> 0]
  /\ announcing = { }
  /\ placed = [s \in Signals |-> 0]
  /\ decide = [q \in Decisions |-> NoDecision]
  /\ wiped = { }

\* the trades of a run
MaxTrades == 2

\* server.js:574: USER_FSM is empty at start-up
FsmIdle ==
  /\ USER_FSM = { }
  /\ chosen = { }
  /\ trades = 0

\* part_008:219 /webhook: the signals TradingView posts in one run
NumWebhooks == 3

Hooks == 1 .. NumWebhooks

AutoIdle ==
  /\ autoTradeEnabled = FALSE
  /\ hook = [s \in Hooks |-> "idle"]

\* the messages the chats send to the bot in one run
MaxMessages == 3

PromptIdle ==
  /\ listeners = [c \in Chats |-> 0]
  /\ prompting = [c \in Chats |-> 0]
  /\ messages = 0
  /\ recorded = { }

SideIdle == CacheIdle /\ RateIdle /\ ServiceIdle /\ ConfirmIdle /\ PendingIdle /\ FsmIdle /\ AutoIdle /\ PromptIdle

\* nothing of the capture services, the bot's fetch or the resolvers runs
CaptureIdle ==
  /\ raw = << >>
  /\ resolved = NotResolved
  /\ faults = 0
  /\ chrome = [b \in BrowserIds |-> "none"]
  /\ pagesOpen = [b \in BrowserIds |-> 0]
  /\ launches = 0
  /\ launchesInFlight = 0
  /\ pc = [p \in Procs |-> "off"]
  /\ cands = [r \in Reqs |-> << >>]
  /\ tried = [r \in Reqs |-> << >>]
  /\ outcome = [r \in Reqs |-> << >>]
  /\ br = [p \in Procs |-> NoBrowser]
  /\ page = [r \in Reqs |-> NoBrowser]
  /\ resp = [p \in Procs |-> NoResp]
  /\ activeCaptures = 0
  /\ captureQueue = << >>
  /\ browser = NoBrowser
  /\ browserReady = FALSE
  /\ browserLaunching = FALSE
  /\ closeTarget = NoBrowser
  /\ mgr_browser = NoBrowser
  /\ mgr_launching = "none"
  /\ mgr_launchValue = NoBrowser
  /\ queue_active = 0
  /\ queue_q = << >>
  /\ urlIdx = [r \in Reqs |-> 0]
  /\ reply = [r \in Reqs |-> NoReply]
  /\ fetched = [r \in Reqs |-> NotFetched]
  /\ sharedPage = NoBrowser
  /\ pageShows = [b \in BrowserIds |-> NoChart]
  /\ want = [r \in Reqs |-> NoChart]
  /\ shotBytes = [r \in Reqs |-> "none"]
  /\ idleTicks = 0
  /\ asked = [r \in Reqs |-> << >>]
  /\ failure = [r \in Reqs |-> NoFailure]

\* The state after start-up: app.listen's callback (lines 963-969) has called
\* launchBrowserIfNeeded, which is awaiting puppeteer.launch.
InitMicro ==
  /\ program = "micro"
  /\ SideIdle
  /\ scenario \in { "load", "session", "burst", "chain" }
  /\ faults = 0
  /\ chrome = [b \in BrowserIds |-> "none"]
  /\ pagesOpen = [b \in BrowserIds |-> 0]
  /\ launches = 1
  /\ launchesInFlight = 1
  /\ pc = [p \in Procs |-> IF p = Boot THEN "launch" ELSE IF p \in Active THEN "idle" ELSE "off"]
  /\ cands = [r \in Reqs |-> << >>]
  /\ tried = [r \in Reqs |-> << >>]
  /\ outcome = [r \in Reqs |-> << >>]
  /\ br = [p \in Procs |-> NoBrowser]
  /\ page = [r \in Reqs |-> NoBrowser]
  /\ resp = [p \in Procs |-> NoResp]
  /\ activeCaptures = 0
  /\ captureQueue = << >>
  /\ browser = NoBrowser
  /\ browserReady = FALSE
  /\ browserLaunching = TRUE
  /\ closeTarget = NoBrowser
  /\ mgr_browser = NoBrowser
  /\ mgr_launching = "none"
  /\ mgr_launchValue = NoBrowser
  /\ queue_active = 0
  /\ queue_q = << >>
  /\ urlIdx = [r \in Reqs |-> 0]
  /\ reply = [r \in Reqs |-> NoReply]
  /\ fetched = [r \in Reqs |-> NotFetched]
  /\ sharedPage = NoBrowser
  /\ pageShows = [b \in BrowserIds |-> NoChart]
  /\ want = [r \in Reqs |-> NoChart]
  /\ shotBytes = [r \in Reqs |-> "none"]
  /\ idleTicks = 0
  /\ asked = [r \in Reqs |-> << >>]
  /\ failure = [r \in Reqs |-> NoFailure]
  /\ raw = << >>
  /\ resolved = NotResolved

\* a bug: the newest waiter is served (pop instead of shift)
WaiterNewest(q) == q[Len(q)]

\* captureQueue.shift() (part_000:158), this.q.shift() (part_002:299): the
\* waiter whose resolver a release calls
Waiter(q) == Head(q)

\* a bug: off by one in the cap test
SlotFreeOffByOne == activeCaptures <= MAX_CONCURRENT_CAPTURES

\* acquireCaptureSlot line 139: the test that grants a slot at once
SlotFree == activeCaptures < MAX_CONCURRENT_CAPTURES

\* a bug: the release does not service the queue
ReleaseCaptureSlotNoService(r) ==
  /\ activeCaptures' = activeCaptures - 1
  /\ captureQueue' = captureQueue
  /\ pc' = [pc EXCEPT ![r] = "done"]

\* releaseCaptureSlot, by finished request r: the new activeCaptures,
\* captureQueue and the pc of r and of the waiter whose resolver is called
ReleaseCaptureSlot(r) ==
  IF Len(captureQueue) > 0 /\ activeCaptures - 1 < MAX_CONCURRENT_CAPTURES
  THEN /\ activeCaptures' = (activeCaptures - 1) + 1
       /\ captureQueue' = Tail(captureQueue)
       /\ pc' = [pc EXCEPT ![r] = "done", ![Waiter(captureQueue)] = "attempt"]
  ELSE /\ activeCaptures' = activeCaptures - 1
       /\ captureQueue' = captureQueue
       /\ pc' = [pc EXCEPT ![r] = "done"]

\* launchBrowserIfNeeded line 189: a usable browser is at hand
BrowserUp == browser # NoBrowser /\ browserReady

\* a bug: the launch-in-progress flag is not consulted
MustWaitForLaunchIgnored == FALSE

\* launchBrowserIfNeeded line 192: another caller's launch is in progress
MustWaitForLaunch == browserLaunching

\* where caller p goes on when launchBrowserIfNeeded returns / throws
PcAfterReturn(p) == IF p \in Reqs THEN "newPage" ELSE "done"
PcAfterThrow(p) == IF p \in Reqs THEN "attempt" ELSE "done"
RespAfterReturn(p) ==
  IF p \in Starts THEN Response(200, "text", "", FALSE) ELSE resp[p]
RespAfterThrow(p) ==
  IF p \in Starts THEN Response(500, "text", "", FALSE) ELSE resp[p]

\* launchBrowserIfNeeded, from its call to its first await (or return), for
\* caller p whose pc becomes "poll", "launch" or what follows the return
LaunchCall(p) ==
  IF BrowserUp
  THEN /\ pc' = [pc EXCEPT ![p] = PcAfterReturn(p)]
       /\ br' = [br EXCEPT ![p] = browser]
       /\ resp' = [resp EXCEPT ![p] = RespAfterReturn(p)]
       /\ UNCHANGED << browserVars, envVars >>
  ELSE IF MustWaitForLaunch
  THEN /\ pc' = [pc EXCEPT ![p] = "poll"]
       /\ UNCHANGED << br, resp, browserVars, envVars >>
  ELSE /\ browserLaunching' = TRUE
       /\ launches' = launches + 1
       /\ launchesInFlight' = launchesInFlight + 1
       /\ pc' = [pc EXCEPT ![p] = "launch"]
       /\ UNCHANGED << br, resp, browser, browserReady, chrome, pagesOpen, faults >>

\* handleSnapshotRequest: acquireCaptureSlot (lines 137-147); with a slot at
\* once, on into captureWithFallback's first candidate up to its first await
Arrive(r, conf) ==
  /\ program = "micro"
  /\ ~MicrotaskPending
  /\ pc[r] = "idle"
  /\ ArrivesNext(r)
  /\ conf \in ConfChoices
  /\ cands' = [cands EXCEPT ![r] = Dedup(conf[1], conf[2])]
  /\ IF SlotFree
     THEN /\ activeCaptures' = activeCaptures + 1
          /\ captureQueue' = captureQueue
          /\ tried' = [tried EXCEPT ![r] = << NextCand(cands'[r], 0) >>]
          /\ outcome' = [outcome EXCEPT ![r] = << "run" >>]
          /\ LaunchCall(r)
     ELSE /\ captureQueue' = Append(captureQueue, r)
          /\ activeCaptures' = activeCaptures
          /\ pc' = [pc EXCEPT ![r] = "queued"]
          /\ UNCHANGED << envVars, tried, outcome, br, resp, browserVars >>
  /\ asked' = [asked EXCEPT ![r] = conf]
  /\ UNCHANGED << program, scenario, sideVars, raw, resolved, failure, idleTicks, shotBytes, iqtvVars, botVars, sharedVars, page, closeTarget >>

\* captureWithFallback loop head: next candidate, or all exchanges failed
BeginAttempt(r) ==
  /\ program = "micro"
  /\ pc[r] = "attempt"
  /\ Len(tried[r]) < Len(cands[r])
  /\ tried' = [tried EXCEPT ![r] = Append(@, NextCand(cands[r], Len(tried[r])))]
  /\ outcome' = [outcome EXCEPT ![r] = Append(@, "run")]
  /\ LaunchCall(r)
  /\ UNCHANGED << program, scenario, sideVars, raw, resolved, failure, asked, idleTicks, shotBytes, iqtvVars, botVars, sharedVars, cands, page, slotVars, closeTarget >>

AllFailed(r) ==
  /\ program = "micro"
  /\ pc[r] = "attempt"
  /\ Len(tried[r]) >= Len(cands[r])
  /\ resp' = [resp EXCEPT ![r] = Response(500, "text", "", FALSE)]
  /\ failure' = [failure EXCEPT ![r] = [errors |-> << LastErr(r) >>, names |-> tried[r]]]
  /\ ReleaseCaptureSlot(r)
  /\ UNCHANGED << program, scenario, sideVars, raw, resolved, asked, idleTicks, shotBytes, iqtvVars, botVars, sharedVars, envVars, cands, tried, outcome, br, page, browserVars, closeTarget >>

\* GET /start-browser
StartBrowser(s) ==
  /\ program = "micro"
  /\ ~MicrotaskPending
  /\ pc[s] = "idle"
  /\ StartsNext(s)
  /\ LaunchCall(s)
  /\ UNCHANGED << program, scenario, sideVars, raw, resolved, failure, asked, idleTicks, shotBytes, iqtvVars, botVars, sharedVars, reqVars, slotVars, closeTarget >>

\* launchBrowserIfNeeded lines 194-197: the 250 ms poll finds the launch over
\* and returns whatever the variable browser holds by then
Poll(p) ==
  /\ program = "micro"
  /\ ~MicrotaskPending
  /\ pc[p] = "poll"
  /\ ~browserLaunching
  /\ pc' = [pc EXCEPT ![p] = PcAfterReturn(p)]
  /\ br' = [br EXCEPT ![p] = browser]
  /\ resp' = [resp EXCEPT ![p] = RespAfterReturn(p)]
  /\ UNCHANGED << program, scenario, sideVars, raw, resolved, failure, asked, idleTicks, shotBytes, iqtvVars, botVars, sharedVars, envVars, reqVars, microVars >>

\* the first browser id not yet used
NewBrowserId == CHOOSE b \in BrowserIds : chrome[b] = "none" /\ \A c \in BrowserIds : chrome[c] = "none" => b <= c

\* launchBrowserIfNeeded lines 207-222, 230: puppeteer.launch resolved
LaunchOk(p) ==
  /\ program = "micro"
  /\ ~MicrotaskPending
  /\ pc[p] = "launch"
  /\ \E b \in BrowserIds : chrome[b] = "none"
  /\ LET b == NewBrowserId
     IN  /\ chrome' = [chrome EXCEPT ![b] = "running"]
         /\ browser' = b
         /\ br' = [br EXCEPT ![p] = b]
  /\ browserReady' = TRUE
  /\ browserLaunching' = FALSE
  /\ launchesInFlight' = launchesInFlight - 1
  /\ pc' = [pc EXCEPT ![p] = PcAfterReturn(p)]
  /\ resp' = [resp EXCEPT ![p] = RespAfterReturn(p)]
  /\ UNCHANGED << program, scenario, sideVars, raw, resolved, failure, asked, idleTicks, shotBytes, iqtvVars, botVars, sharedVars, pagesOpen, launches, faults, reqVars, slotVars, closeTarget >>

\* launchBrowserIfNeeded lines 223-231: puppeteer.launch rejected; the error
\* is rethrown to the caller (captureWithFallback's catch, /start-browser's
\* catch, the app.listen callback's catch)
LaunchFail(p) ==
  /\ program = "micro"
  /\ ~MicrotaskPending
  /\ pc[p] = "launch"
  /\ faults < MaxFaults
  /\ faults' = faults + 1
  /\ browserLaunching' = FALSE
  /\ browserReady' = FALSE
  /\ browser' = NoBrowser
  /\ launchesInFlight' = launchesInFlight - 1
  /\ pc' = [pc EXCEPT ![p] = PcAfterThrow(p)]
  /\ resp' = [resp EXCEPT ![p] = RespAfterThrow(p)]
  /\ outcome' = IF p \in Reqs THEN [outcome EXCEPT ![p] = SetLast(@, "fail")] ELSE outcome
  /\ UNCHANGED << program, scenario, sideVars, raw, resolved, failure, asked, idleTicks, shotBytes, iqtvVars, botVars, sharedVars, chrome, pagesOpen, launches, cands, tried, br, page, slotVars, closeTarget >>

\* a handle on which puppeteer calls can succeed
Usable(b) == b # NoBrowser /\ chrome[b] = "running"

\* captureTradingViewChart line 432: br.newPage().  br is null after a poll
\* that outlived a failed launch (TypeError); a browser that has exited
\* rejects; a running one may reject too (ok = FALSE)
NewPage(r, ok) ==
  /\ program = "micro"
  /\ ~MicrotaskPending
  /\ pc[r] = "newPage"
  /\ Usable(br[r]) /\ ~ok => faults < MaxFaults
  /\ faults' = IF Usable(br[r]) /\ ~ok THEN faults + 1 ELSE faults
  /\ IF Usable(br[r]) /\ ok
     THEN /\ pagesOpen' = [pagesOpen EXCEPT ![br[r]] = @ + 1]
          /\ page' = [page EXCEPT ![r] = br[r]]
          /\ pc' = [pc EXCEPT ![r] = "drive"]
          /\ outcome' = outcome
     ELSE /\ pc' = [pc EXCEPT ![r] = "attempt"]
          /\ outcome' = [outcome EXCEPT ![r] = SetLast(@, "fail")]
          /\ UNCHANGED << pagesOpen, page >>
  /\ idleTicks' = IF Usable(br[r]) /\ ok THEN 0 ELSE idleTicks
  /\ UNCHANGED << program, scenario, sideVars, raw, resolved, failure, asked, shotBytes, iqtvVars, botVars, sharedVars, chrome, launches, launchesInFlight, cands, tried, br, resp, microVars >>

\* captureTradingViewChart lines 435-460 and the return through
\* captureWithFallback (504-505) and handleSnapshotRequest (611-612, 616).
\*   "ok"        every step succeeded
\*   "nav_error" page.goto threw (caught at 441), the rest succeeded
\*   "throw"     setUserAgent, setViewport, screenshot or close threw
\*   "blank"     nothing threw, but the chart had not rendered (blank page,
\*               loading spinner): the screenshot is a few bytes of PNG;
\*               followed in the one-request runs
DriveOutcomes ==
  IF scenario = "chain" THEN { "ok", "nav_error", "throw", "blank" }
  ELSE { "ok", "nav_error", "throw" }

\* does the attempt count as a success for captureWithFallback
AttemptSucceeds(o) == o \in { "ok", "nav_error", "blank" }

\* page.screenshot() (part_000:453, part_002:371/392): the size of the buffer
ShotSize(o) ==
  IF o \in { "ok", "nav_error" } THEN "full"
  ELSE IF o = "blank" THEN "short"
  ELSE "none"

Drive(r, o) ==
  /\ program = "micro"
  /\ ~MicrotaskPending
  /\ pc[r] = "drive"
  /\ o \in DriveOutcomes
  /\ chrome[page[r]] # "running" => o = "throw"
  /\ chrome[page[r]] = "running" /\ o # "ok" => faults < MaxFaults
  /\ faults' = IF chrome[page[r]] = "running" /\ o # "ok" THEN faults + 1 ELSE faults
  /\ page' = [page EXCEPT ![r] = NoBrowser]
  /\ IF AttemptSucceeds(o)
     THEN /\ pagesOpen' = [pagesOpen EXCEPT ![page[r]] = @ - 1]
          /\ outcome' = [outcome EXCEPT ![r] = SetLast(@, "ok")]
          /\ resp' = [resp EXCEPT ![r] =
                        Response(200, "image", tried[r][Len(tried[r])], o = "nav_error")]
          /\ ReleaseCaptureSlot(r)
     ELSE /\ pagesOpen' = pagesOpen
          /\ outcome' = [outcome EXCEPT ![r] = SetLast(@, "fail")]
          /\ pc' = [pc EXCEPT ![r] = "attempt"]
          /\ UNCHANGED << resp, slotVars >>
  /\ shotBytes' = [shotBytes EXCEPT ![r] = ShotSize(o)]
  /\ UNCHANGED << program, scenario, sideVars, raw, resolved, failure, asked, idleTicks, iqtvVars, botVars, sharedVars, chrome, launches, launchesInFlight, cands, tried, br, browserVars, closeTarget >>

\* the browser process exits (crash, or the effect of browser.close()); its
\* 'disconnected' handler (lines 213-218) runs
Disconnected(b) ==
  /\ program = "micro"
  /\ ~MicrotaskPending
  /\ chrome[b] = "running"
  /\ IF b = closeTarget /\ pc[Closer] = "closing"
     THEN faults' = faults
     ELSE faults < MaxFaults /\ faults' = faults + 1
  /\ chrome' = [chrome EXCEPT ![b] = "dead"]
  /\ pagesOpen' = [pagesOpen EXCEPT ![b] = 0]
  /\ browserReady' = FALSE
  /\ browser' = NoBrowser
  /\ UNCHANGED << program, scenario, sideVars, raw, resolved, failure, asked, idleTicks, shotBytes, iqtvVars, botVars, sharedVars, launches, launchesInFlight, pc, reqVars, br, resp, slotVars, browserLaunching, closeTarget >>

\* GET /close-browser, closeBrowser lines 238-240
CloseCall ==
  /\ program = "micro"
  /\ ~MicrotaskPending
  /\ pc[Closer] = "idle"
  /\ IF browser = NoBrowser
     THEN /\ pc' = [pc EXCEPT ![Closer] = "done"]
          /\ resp' = [resp EXCEPT ![Closer] = Response(200, "text", "", FALSE)]
          /\ closeTarget' = closeTarget
     ELSE /\ pc' = [pc EXCEPT ![Closer] = "closing"]
          /\ closeTarget' = browser
          /\ resp' = resp
  /\ UNCHANGED << program, scenario, sideVars, raw, resolved, failure, asked, idleTicks, shotBytes, iqtvVars, botVars, sharedVars, envVars, reqVars, br, slotVars, browserVars >>

\* closeBrowser lines 241-247: browser.close() settled (the process is gone)
CloseDone ==
  /\ program = "micro"
  /\ ~MicrotaskPending
  /\ pc[Closer] = "closing"
  /\ chrome[closeTarget] # "running"
  /\ browser' = NoBrowser
  /\ browserReady' = FALSE
  /\ pc' = [pc EXCEPT ![Closer] = "done"]
  /\ resp' = [resp EXCEPT ![Closer] = Response(200, "text", "", FALSE)]
  /\ UNCHANGED << program, scenario, sideVars, raw, resolved, failure, asked, idleTicks, shotBytes, iqtvVars, botVars, sharedVars, envVars, reqVars, br, slotVars, browserLaunching, closeTarget >>

\* The browser the manager holds is running and has no page open.
SessionIdle ==
  /\ ManagerBrowser # NoBrowser
  /\ chrome[ManagerBrowser] = "running"
  /\ pagesOpen[ManagerBrowser] = 0

\* Time passes while the session is idle.  Neither part_000 (lines 166-248)
\* nor part_002 (BrowserManager, lines 307-355) sets a timer on it: nothing
\* but the clock changes.  The clock is followed in the one-request runs.
Tick ==
  /\ program \in { "micro", "iqtv" }
  /\ scenario = "chain"
  /\ ~MicrotaskPending
  /\ SessionIdle
  /\ idleTicks < MaxIdleTicks
  /\ idleTicks' = idleTicks + 1
  /\ UNCHANGED << program, scenario, sideVars, raw, resolved, failure, asked, shotBytes, microVars, iqtvVars, botVars, sharedVars,
                  envVars, reqVars, pc, br, resp >>

NextMicro ==
  \/ \E r \in Reqs, conf \in AllConfs : Arrive(r, conf)
  \/ \E r \in Reqs : BeginAttempt(r)
  \/ \E r \in Reqs : AllFailed(r)
  \/ \E s \in Starts : StartBrowser(s)
  \/ \E p \in Procs : Poll(p)
  \/ \E p \in Procs : LaunchOk(p)
  \/ \E p \in Procs : LaunchFail(p)
  \/ \E r \in Reqs, ok \in BOOLEAN : NewPage(r, ok)
  \/ \E r \in Reqs, o \in DriveOutcomes : Drive(r, o)
  \/ \E b \in BrowserIds : Disconnected(b)
  \/ CloseCall
  \/ CloseDone
  \/ Tick

(* ======================== program "iqtv" (part_002) ==================== *)

TV_EXCH_FALLBACKS ==
  << "FX", "CURRENCY", "QUOTEX", "FX_IDC", "OANDA", "FOREXCOM", "FXCM", "IDC" >>

\* the sources /run tries, in order (lines 537-544 with attemptAutoScreenshot):
\* source=auto: IQ Option, then symbolInfo.tvExchList; source=iq; source=tv
AutoSources(tvExchList) == << "IQ" >> \o tvExchList

AllRunChoices ==
  { AutoSources(TV_EXCH_FALLBACKS),      \* /run?ticker=EURUSD
    AutoSources(<< "OANDA" >>),          \* /run?ticker=OANDA:EURUSD
    << "IQ" >>,                          \* /run?source=iq
    << "FX" >> }                         \* /run?source=tv

RunChoices ==
  IF scenario = "session" THEN AllRunChoices ELSE { AutoSources(TV_EXCH_FALLBACKS) }

\* The state after construction (lines 357, 568-571): no browser, no launch
InitIqtv ==
  /\ program = "iqtv"
  /\ SideIdle
  /\ scenario \in { "load", "session", "burst", "chain" }
  /\ faults = 0
  /\ chrome = [b \in BrowserIds |-> "none"]
  /\ pagesOpen = [b \in BrowserIds |-> 0]
  /\ launches = 0
  /\ launchesInFlight = 0
  /\ pc = [p \in Procs |-> IF p \in Active \ {Closer} THEN "idle" ELSE "off"]
  /\ cands = [r \in Reqs |-> << >>]
  /\ tried = [r \in Reqs |-> << >>]
  /\ outcome = [r \in Reqs |-> << >>]
  /\ br = [p \in Procs |-> NoBrowser]
  /\ page = [r \in Reqs |-> NoBrowser]
  /\ resp = [p \in Procs |-> NoResp]
  /\ activeCaptures = 0
  /\ captureQueue = << >>
  /\ browser = NoBrowser
  /\ browserReady = FALSE
  /\ browserLaunching = FALSE
  /\ closeTarget = NoBrowser
  /\ mgr_browser = NoBrowser
  /\ mgr_launching = "none"
  /\ mgr_launchValue = NoBrowser
  /\ queue_active = 0
  /\ queue_q = << >>
  /\ urlIdx = [r \in Reqs |-> 0]
  /\ reply = [r \in Reqs |-> NoReply]
  /\ fetched = [r \in Reqs |-> NotFetched]
  /\ sharedPage = NoBrowser
  /\ pageShows = [b \in BrowserIds |-> NoChart]
  /\ want = [r \in Reqs |-> NoChart]
  /\ shotBytes = [r \in Reqs |-> "none"]
  /\ idleTicks = 0
  /\ asked = [r \in Reqs |-> << >>]
  /\ failure = [r \in Reqs |-> NoFailure]
  /\ raw = << >>
  /\ resolved = NotResolved

\* AsyncQueue.acquire line 291
QueueHasRoom == queue_active < MAX_CONCURRENT_PAGES

\* AsyncQueue.acquire by request r, then (with a slot) the call of br.newPage
QueueAcquire(r) ==
  IF QueueHasRoom
  THEN /\ queue_active' = queue_active + 1
       /\ queue_q' = queue_q
       /\ pc' = [pc EXCEPT ![r] = "open"]
  ELSE /\ queue_q' = Append(queue_q, r)
       /\ queue_active' = queue_active
       /\ pc' = [pc EXCEPT ![r] = "queued"]

\* _doLaunch line 315: a launch promise exists already
HasLaunchPromise == mgr_launching # "none"

\* BrowserManager.ensure / _doLaunch (lines 314-339) up to the first await,
\* for caller p: newPage of a /run request, or /start-browser
MgrEnsureCall(p) ==
  IF mgr_browser # NoBrowser
  THEN /\ br' = [br EXCEPT ![p] = mgr_browser]
       /\ IF p \in Reqs
          THEN QueueAcquire(p) /\ resp' = resp
          ELSE /\ pc' = [pc EXCEPT ![p] = "done"]
               /\ resp' = [resp EXCEPT ![p] = Response(200, "text", "", FALSE)]
               /\ UNCHANGED queueVars
       /\ UNCHANGED << mgr_launching, launches, launchesInFlight >>
  ELSE /\ pc' = [pc EXCEPT ![p] = "awaitLaunch"]
       /\ UNCHANGED << br, resp, queueVars >>
       /\ IF HasLaunchPromise
          THEN UNCHANGED << mgr_launching, launches, launchesInFlight >>
          ELSE /\ mgr_launching' = "pending"
               /\ launches' = launches + 1
               /\ launchesInFlight' = launchesInFlight + 1

\* GET /run (lines 509-544) up to the first await of the first source
RunArrive(r, choice) ==
  /\ program = "iqtv"
  /\ ~MicrotaskPending
  /\ pc[r] = "idle"
  /\ ArrivesNext(r)
  /\ choice \in RunChoices
  /\ cands' = [cands EXCEPT ![r] = choice]
  /\ tried' = [tried EXCEPT ![r] = << NextCand(choice, 0) >>]
  /\ outcome' = [outcome EXCEPT ![r] = << "run" >>]
  /\ MgrEnsureCall(r)
  /\ UNCHANGED << program, scenario, sideVars, raw, resolved, failure, asked, idleTicks, shotBytes, microVars, botVars, sharedVars, chrome, pagesOpen, faults, page,
                  mgr_browser, mgr_launchValue >>

\* attemptAutoScreenshot lines 496-502: the previous source failed, next one
RunAttempt(r) ==
  /\ program = "iqtv"
  /\ pc[r] = "attempt"
  /\ Len(tried[r]) < Len(cands[r])
  /\ tried' = [tried EXCEPT ![r] = Append(@, NextCand(cands[r], Len(tried[r])))]
  /\ outcome' = [outcome EXCEPT ![r] = Append(@, "run")]
  /\ MgrEnsureCall(r)
  /\ UNCHANGED << program, scenario, sideVars, raw, resolved, failure, asked, idleTicks, shotBytes, microVars, botVars, sharedVars, chrome, pagesOpen, faults, cands, page,
                  mgr_browser, mgr_launchValue >>

\* attemptAutoScreenshot line 503 (a fixed message) and /run lines 546-549;
\* source=iq and source=tv (one candidate, lines 538-542) answer with the
\* error of their screenshot call
RunAllFailed(r) ==
  /\ program = "iqtv"
  /\ pc[r] = "attempt"
  /\ Len(tried[r]) >= Len(cands[r])
  /\ resp' = [resp EXCEPT ![r] = Response(404, "text", "", FALSE)]
  /\ failure' = [failure EXCEPT ![r] =
                   IF Len(cands[r]) > 1 THEN NoFailure
                   ELSE [errors |-> << LastErr(r) >>, names |-> << >>]]
  /\ pc' = [pc EXCEPT ![r] = "done"]
  /\ UNCHANGED << program, scenario, sideVars, raw, resolved, asked, idleTicks, shotBytes, microVars, botVars, sharedVars, iqtvVars, envVars, reqVars, br >>

\* GET /start-browser (lines 464-467)
MgrStartBrowser(s) ==
  /\ program = "iqtv"
  /\ ~MicrotaskPending
  /\ pc[s] = "idle"
  /\ StartsNext(s)
  /\ MgrEnsureCall(s)
  /\ UNCHANGED << program, scenario, sideVars, raw, resolved, failure, asked, idleTicks, shotBytes, microVars, botVars, sharedVars, chrome, pagesOpen, faults, reqVars,
                  mgr_browser, mgr_launchValue >>

\* the async function of _doLaunch (lines 316-333): puppeteer.launch settles
MgrLaunchSettle(ok) ==
  /\ program = "iqtv"
  /\ ~MicrotaskPending
  /\ mgr_launching = "pending"
  /\ launchesInFlight' = launchesInFlight - 1
  /\ IF ok
     THEN /\ \E b \in BrowserIds : chrome[b] = "none"
          /\ chrome' = [chrome EXCEPT ![NewBrowserId] = "running"]
          /\ mgr_browser' = NewBrowserId
          /\ mgr_launchValue' = NewBrowserId
          /\ mgr_launching' = "resolved"
          /\ faults' = faults
     ELSE /\ faults < MaxFaults
          /\ faults' = faults + 1
          /\ mgr_launching' = "rejected"
          /\ UNCHANGED << chrome, mgr_browser, mgr_launchValue >>
  /\ UNCHANGED << program, scenario, sideVars, raw, resolved, failure, asked, idleTicks, shotBytes, microVars, botVars, sharedVars, pagesOpen, launches, pc, reqVars, br, resp, queueVars >>

\* a caller awaiting the launch promise resumes: with the browser it resolved
\* with, or with its rejection, which neither newPage, screenshotIq/Tv,
\* attemptAutoScreenshot nor the /run handler catches
MgrLaunchAwaited(p) ==
  /\ program = "iqtv"
  /\ pc[p] = "awaitLaunch"
  /\ mgr_launching \in { "resolved", "rejected" }
  /\ IF mgr_launching = "resolved"
     THEN /\ br' = [br EXCEPT ![p] = mgr_launchValue]
          /\ outcome' = outcome
          /\ IF p \in Reqs
             THEN QueueAcquire(p) /\ resp' = resp
             ELSE /\ pc' = [pc EXCEPT ![p] = "done"]
                  /\ resp' = [resp EXCEPT ![p] = Response(200, "text", "", FALSE)]
                  /\ UNCHANGED queueVars
     ELSE /\ br' = br
          /\ UNCHANGED queueVars
          /\ IF p \in Reqs
             THEN /\ pc' = [pc EXCEPT ![p] = "crashed"]
                  /\ outcome' = [outcome EXCEPT ![p] = SetLast(@, "fail")]
                  /\ resp' = resp
             ELSE /\ pc' = [pc EXCEPT ![p] = "done"]
                  /\ outcome' = outcome
                  /\ resp' = [resp EXCEPT ![p] = Response(500, "text", "", FALSE)]
  /\ UNCHANGED << program, scenario, sideVars, raw, resolved, failure, asked, idleTicks, shotBytes, microVars, botVars, sharedVars, mgrVars, envVars, cands, tried, page >>

\* BrowserManager.newPage lines 343-348: br.newPage, setUserAgent,
\* setViewport, page.on('close').  None of it is inside a try.
\*   "ok"            the page is open and configured
\*   "newPage_throw" br.newPage rejected (always so when the browser has exited)
\*   "setup_throw"   setUserAgent or setViewport rejected
OpenOutcomes == { "ok", "newPage_throw", "setup_throw" }

MgrOpenPage(r, o) ==
  /\ program = "iqtv"
  /\ ~MicrotaskPending
  /\ pc[r] = "open"
  /\ o \in OpenOutcomes
  /\ ~Usable(br[r]) => o = "newPage_throw"
  /\ Usable(br[r]) /\ o # "ok" => faults < MaxFaults
  /\ faults' = IF Usable(br[r]) /\ o # "ok" THEN faults + 1 ELSE faults
  /\ pagesOpen' = IF o = "newPage_throw" THEN pagesOpen
                  ELSE [pagesOpen EXCEPT ![br[r]] = @ + 1]
  /\ IF o = "ok"
     THEN /\ page' = [page EXCEPT ![r] = br[r]]
          /\ pc' = [pc EXCEPT ![r] = "drive"]
          /\ outcome' = outcome
     ELSE /\ page' = page
          /\ pc' = [pc EXCEPT ![r] = "crashed"]
          /\ outcome' = [outcome EXCEPT ![r] = SetLast(@, "fail")]
  /\ idleTicks' = IF o = "newPage_throw" THEN idleTicks ELSE 0
  /\ UNCHANGED << program, scenario, sideVars, raw, resolved, failure, asked, shotBytes, microVars, botVars, sharedVars, iqtvVars, chrome, launches, launchesInFlight,
                  cands, tried, br, resp >>

\* AsyncQueue.release (lines 296-301): the new active count
ActiveAfterRelease ==
  LET a == IF queue_active - 1 < 0 THEN 0 ELSE queue_active - 1
  IN  IF Len(queue_q) > 0 THEN a + 1 ELSE a

\* screenshotIq / screenshotTv lines 365-378 / 387-399, and the return
\* through attemptAutoScreenshot to /run (lines 551-555).
\*   o   "ok": goto .. screenshot succeeded; "error": one of them threw;
\*       "blank": none threw, the screenshot is of a chart not rendered
\*       (followed in the one-request runs)
\*   ev  the page's 'close' event fired (it does when page.close() succeeds)
MgrDriveOutcomes ==
  IF scenario = "chain" THEN { "ok", "error", "blank" } ELSE { "ok", "error" }

\* screenshotIq / screenshotTv lines 371-372 / 392-393: ok is true whenever
\* nothing threw
MgrOk(o) == o \in { "ok", "blank" }

MgrDrive(r, o, ev) ==
  /\ program = "iqtv"
  /\ ~MicrotaskPending
  /\ pc[r] = "drive"
  /\ o \in MgrDriveOutcomes
  /\ IF chrome[page[r]] = "running" THEN ev ELSE o = "error"
  /\ chrome[page[r]] = "running" /\ o # "ok" => faults < MaxFaults
  /\ faults' = IF chrome[page[r]] = "running" /\ o # "ok" THEN faults + 1 ELSE faults
  /\ shotBytes' = [shotBytes EXCEPT ![r] = ShotSize(o)]
  /\ pagesOpen' = IF chrome[page[r]] = "running"
                  THEN [pagesOpen EXCEPT ![page[r]] = @ - 1] ELSE pagesOpen
  /\ page' = [page EXCEPT ![r] = NoBrowser]
  /\ outcome' = [outcome EXCEPT ![r] = SetLast(@, IF MgrOk(o) THEN "ok" ELSE "fail")]
  /\ resp' = IF MgrOk(o)
             THEN [resp EXCEPT ![r] = Response(200, "image", tried[r][Len(tried[r])], FALSE)]
             ELSE resp
  /\ LET mine == IF MgrOk(o) THEN "done" ELSE "attempt"
     IN  IF ev
         THEN /\ queue_active' = ActiveAfterRelease
              /\ queue_q' = IF Len(queue_q) > 0 THEN Tail(queue_q) ELSE queue_q
              /\ pc' = IF Len(queue_q) > 0
                       THEN [pc EXCEPT ![r] = mine, ![Waiter(queue_q)] = "open"]
                       ELSE [pc EXCEPT ![r] = mine]
         ELSE /\ pc' = [pc EXCEPT ![r] = mine]
              /\ UNCHANGED queueVars
  /\ UNCHANGED << program, scenario, sideVars, raw, resolved, failure, asked, idleTicks, microVars, botVars, sharedVars, mgrVars, chrome, launches, launchesInFlight,
                  cands, tried, br >>

\* the browser process exits; its 'disconnected' handler (line 331) runs
MgrDisconnected(b) ==
  /\ program = "iqtv"
  /\ ~MicrotaskPending
  /\ chrome[b] = "running"
  /\ faults < MaxFaults
  /\ faults' = faults + 1
  /\ chrome' = [chrome EXCEPT ![b] = "dead"]
  /\ pagesOpen' = [pagesOpen EXCEPT ![b] = 0]
  /\ mgr_browser' = NoBrowser
  /\ UNCHANGED << program, scenario, sideVars, raw, resolved, failure, asked, idleTicks, shotBytes, microVars, botVars, sharedVars, launches, launchesInFlight, pc, reqVars, br,
                  resp, mgr_launching, mgr_launchValue, queueVars >>

NextIqtv ==
  \/ \E r \in Reqs, choice \in AllRunChoices : RunArrive(r, choice)
  \/ \E r \in Reqs : RunAttempt(r)
  \/ \E r \in Reqs : RunAllFailed(r)
  \/ \E s \in Starts : MgrStartBrowser(s)
  \/ \E ok \in BOOLEAN : MgrLaunchSettle(ok)
  \/ \E p \in Procs : MgrLaunchAwaited(p)
  \/ \E r \in Reqs, o \in OpenOutcomes : MgrOpenPage(r, o)
  \/ \E r \in Reqs, o \in MgrDriveOutcomes, ev \in BOOLEAN : MgrDrive(r, o, ev)
  \/ \E b \in BrowserIds : MgrDisconnected(b)
  \/ Tick

(* ========================= program "bot" (server.js) =================== *)

KNOWN_EXCHANGES_FX == << "FX", "FX_IDC", "OANDA", "FOREXCOM", "IDC" >>
KNOWN_EXCHANGES_OTC == << "QUOTEX", "IQOPTION", "CURRENCY" >>

\* fetch_snapshot_png_any line 507: the exchanges appended to every call
GlobalExchanges ==
  << "FX", "FX_IDC", "OANDA", "FOREXCOM", "IDC", "QUOTEX", "CURRENCY", "BINANCE" >>

\* fetch_snapshot_png_any line 522: the URLs tried for one exchange
NumUrls == 4

\* (primary_ex, alt_exchanges) as resolve_symbol returns them: a plain pair
\* (DEFAULT_EXCHANGE as set, or given in lower case), an OTC pair of
\* PAIR_XREF, "BINANCE:BTCUSDT"
FetchChoices ==
  { << "FX", KNOWN_EXCHANGES_FX >>,
    << "fx", KNOWN_EXCHANGES_FX >>,       \* DEFAULT_EXCHANGE=fx in the environment
    << "QUOTEX", KNOWN_EXCHANGES_OTC \o KNOWN_EXCHANGES_FX >>,
    << "BINANCE", << >> >> }

\* fetch_snapshot_png_any lines 501-515
BotDedup(primary_ex, alt_exchanges) ==
  DedupFrom(<< primary_ex >> \o alt_exchanges \o GlobalExchanges, 1, << >>)

InitBot ==
  /\ program = "bot"
  /\ SideIdle
  /\ scenario = "session"
  /\ faults = 0
  /\ chrome = [b \in BrowserIds |-> "none"]
  /\ pagesOpen = [b \in BrowserIds |-> 0]
  /\ launches = 0
  /\ launchesInFlight = 0
  /\ pc = [p \in Procs |-> IF p = << "req", 1 >> THEN "idle" ELSE "off"]
  /\ cands = [r \in Reqs |-> << >>]
  /\ tried = [r \in Reqs |-> << >>]
  /\ outcome = [r \in Reqs |-> << >>]
  /\ br = [p \in Procs |-> NoBrowser]
  /\ page = [r \in Reqs |-> NoBrowser]
  /\ resp = [p \in Procs |-> NoResp]
  /\ activeCaptures = 0
  /\ captureQueue = << >>
  /\ browser = NoBrowser
  /\ browserReady = FALSE
  /\ browserLaunching = FALSE
  /\ closeTarget = NoBrowser
  /\ mgr_browser = NoBrowser
  /\ mgr_launching = "none"
  /\ mgr_launchValue = NoBrowser
  /\ queue_active = 0
  /\ queue_q = << >>
  /\ urlIdx = [r \in Reqs |-> 0]
  /\ reply = [r \in Reqs |-> NoReply]
  /\ fetched = [r \in Reqs |-> NotFetched]
  /\ sharedPage = NoBrowser
  /\ pageShows = [b \in BrowserIds |-> NoChart]
  /\ want = [r \in Reqs |-> NoChart]
  /\ shotBytes = [r \in Reqs |-> "none"]
  /\ idleTicks = 0
  /\ asked = [r \in Reqs |-> << >>]
  /\ failure = [r \in Reqs |-> NoFailure]
  /\ raw = << >>
  /\ resolved = NotResolved

\* fetch_snapshot_png_any lines 496-529: the call, up to its first request
BotFetch(r, conf) ==
  /\ program = "bot"
  /\ pc[r] = "idle"
  /\ conf \in FetchChoices
  /\ cands' = [cands EXCEPT ![r] = BotDedup(conf[1], conf[2])]
  /\ tried' = [tried EXCEPT ![r] = << NextCand(cands'[r], 0) >>]
  /\ outcome' = [outcome EXCEPT ![r] = << "run" >>]
  /\ urlIdx' = [urlIdx EXCEPT ![r] = 1]
  /\ pc' = [pc EXCEPT ![r] = "tryUrl"]
  /\ asked' = [asked EXCEPT ![r] = << conf[1], conf[2] \o GlobalExchanges >>]
  /\ UNCHANGED << program, scenario, sideVars, raw, resolved, failure, idleTicks, shotBytes, microVars, iqtvVars, sharedVars, envVars, br, page, resp, fetched, reply >>

\* what a snapshot URL can answer: any status, any Content-Type, a body that
\* is a PNG, another image, text or empty; status 0: the request raised
\* (connection refused, timeout)
Replies ==
  [status : { 200, 500 }, ct : { "image/png", "text/html" },
   body : { "png", "jpeg", "text", "empty" }]
  \cup { [status |-> 0, ct |-> "", body |-> "none"] }

\* a bug: the body is not looked at when the status is not 200
TryUrlOkStatusOnly(rep) ==
  rep.status = 200 /\ rep.ct \in { "image/png", "image/jpeg" }

\* _try_url lines 457-471, the success flag: status 200 with a Content-Type
\* that starts with "image", or a body that starts with PNG_MAGIC
TryUrlOk(rep) ==
  /\ rep.status # 0
  /\ \/ rep.status = 200 /\ rep.ct \in { "image/png", "image/jpeg" }
     \/ rep.body = "png"

\* fetch_snapshot_png_any line 530: `if ok and png`
Accepted(rep) == TryUrlOk(rep) /\ rep.body # "empty"

\* fetch_snapshot_png_any lines 528-539: _try_url returned for the URL on
\* trial; return, next URL, next exchange, or raise
BotTryUrl(r, rep) ==
  /\ program = "bot"
  /\ pc[r] = "tryUrl"
  /\ rep \in Replies
  /\ reply' = [reply EXCEPT ![r] = rep]
  /\ IF Accepted(rep)
     THEN /\ outcome' = [outcome EXCEPT ![r] = SetLast(@, "ok")]
          /\ fetched' = [fetched EXCEPT ![r] = [state |-> "returned", ex |-> tried[r][Len(tried[r])]]]
          /\ pc' = [pc EXCEPT ![r] = "done"]
          /\ UNCHANGED << tried, urlIdx, failure >>
     ELSE IF urlIdx[r] < NumUrls
     THEN /\ urlIdx' = [urlIdx EXCEPT ![r] = @ + 1]
          /\ UNCHANGED << tried, outcome, fetched, pc, failure >>
     ELSE IF Len(tried[r]) < Len(cands[r])
     THEN /\ tried' = [tried EXCEPT ![r] = Append(@, NextCand(cands[r], Len(tried[r])))]
          /\ outcome' = [outcome EXCEPT ![r] = Append(SetLast(@, "fail"), "run")]
          /\ urlIdx' = [urlIdx EXCEPT ![r] = 1]
          /\ UNCHANGED << fetched, pc, failure >>
     ELSE /\ outcome' = [outcome EXCEPT ![r] = SetLast(@, "fail")]
          /\ fetched' = [fetched EXCEPT ![r] = [state |-> "raised", ex |-> ""]]
          /\ failure' = [failure EXCEPT ![r] = [errors |-> << LastErr(r) >>, names |-> tried[r]]]
          /\ pc' = [pc EXCEPT ![r] = "done"]
          /\ UNCHANGED << tried, urlIdx >>
  /\ UNCHANGED << program, scenario, sideVars, raw, resolved, asked, idleTicks, shotBytes, microVars, iqtvVars, sharedVars, envVars, cands, br, page, resp >>

NextBot ==
  \/ \E r \in Reqs, conf \in FetchChoices : BotFetch(r, conf)
  \/ \E r \in Reqs, rep \in Replies : BotTryUrl(r, rep)

(* ============== program "resolve" (part_000, part_002 resolvers) ======= *)

\* A raw symbol string is a sequence of tokens, each a run of characters of
\* one kind: letters in upper or lower case, ":", "/", the suffix "-OTC",
\* white space, other punctuation.
Tokens == { "EUR", "usd", "FX", ":", "/", "-OTC", " ", "#" }

Raws == UNION { [1 .. n -> Tokens] : n \in 0 .. MaxRawLen }

\* what destructuring yields for an array element that is not there
Undefined == << "undefined" >>

\* part_000:88
TV_DEFAULT_EX == "FX"

\* String.prototype.toUpperCase
Upper(str) == [i \in 1 .. Len(str) |-> ToUpperCase(str[i])]

RECURSIVE TrimStart(_)
TrimStart(str) ==
  IF str # << >> /\ str[1] = " " THEN TrimStart(Tail(str)) ELSE str

RECURSIVE TrimEnd(_)
TrimEnd(str) ==
  IF str # << >> /\ str[Len(str)] = " " THEN TrimEnd(SubSeq(str, 1, Len(str) - 1)) ELSE str

\* String.prototype.trim
Trim(str) == TrimEnd(TrimStart(str))

\* String.prototype.includes(':')
IncludesColon(str) == \E i \in 1 .. Len(str) : str[i] = ":"

\* the pieces of str between its colons
RECURSIVE SplitAll(_)
SplitAll(str) ==
  IF ~IncludesColon(str) THEN << str >>
  ELSE LET i == CHOOSE k \in 1 .. Len(str) : str[k] = ":" /\ \A j \in 1 .. (k - 1) : str[j] # ":"
       IN  << SubSeq(str, 1, i - 1) >> \o SplitAll(SubSeq(str, i + 1, Len(str)))

\* a bug: split(':', 1)
SplitOnePiece(str, limit) == SubSeq(SplitAll(str), 1, 1)

\* String.prototype.split(':', limit): at most limit pieces, the rest dropped
Split(str, limit) ==
  LET all == SplitAll(str)
  IN  SubSeq(all, 1, IF Len(all) < limit THEN Len(all) ELSE limit)

\* const [a, b] = array
Piece(array, i) == IF i <= Len(array) THEN array[i] ELSE Undefined

\* /[^A-Za-z0-9]/ does not match the token
IsAlnum(t) == t \in { "EUR", "USD", "usd", "FX", "OTC" }

\* replace(/[^A-Za-z0-9]/g, ''): "-OTC" loses its dash, punctuation goes
RECURSIVE ScrubPunct(_)
ScrubPunct(str) ==
  IF str = << >> THEN << >>
  ELSE (IF str[1] = "-OTC" THEN << "OTC" >>
        ELSE IF IsAlnum(str[1]) THEN << str[1] >>
        ELSE << >>) \o ScrubPunct(Tail(str))

\* part_000:313-315
stripPairCore(str) ==
  LET core == ScrubPunct(str)
  IN  IF core # << >> /\ core[Len(core)] = "OTC" THEN SubSeq(core, 1, Len(core) - 1) ELSE core

\* part_000:320-322, /-OTC$/i
isOtcPair(str) == str # << >> /\ str[Len(str)] = "-OTC"

\* part_000:357-360
AltList ==
  LET withQ == IF \E i \in 1 .. Len(EXCHANGE_FALLBACKS) : EXCHANGE_FALLBACKS[i] = "QUOTEX"
               THEN EXCHANGE_FALLBACKS ELSE Append(EXCHANGE_FALLBACKS, "QUOTEX")
  IN  IF \E i \in 1 .. Len(withQ) : withQ[i] = "CURRENCY" THEN withQ ELSE Append(withQ, "CURRENCY")

\* a list of exchange names as a list of one-token strings
Names(list) == [i \in 1 .. Len(list) |-> << list[i] >>]

\* part_000:334-369.  threw: a method was called on undefined.
resolveSymbol(rawStr) ==
  IF rawStr = << >>
  THEN [by |-> "micro", threw |-> FALSE, exchange |-> << TV_DEFAULT_EX >>,
        ticker |-> << "EUR", "USD" >>, isOtc |-> FALSE, alts |-> Names(EXCHANGE_FALLBACKS)]
  ELSE LET str == Trim(rawStr)
           parts == Split(str, 2)
           lhs == Piece(parts, 1)
           rhs == Piece(parts, 2)
           ex == IF IncludesColon(str) THEN Upper(Trim(lhs)) ELSE << >>
           tk == IF IncludesColon(str) THEN stripPairCore(Upper(Trim(rhs)))
                 ELSE stripPairCore(Upper(str))
       IN  IF IncludesColon(str) /\ (lhs = Undefined \/ rhs = Undefined)
           THEN [by |-> "micro", threw |-> TRUE, exchange |-> << >>, ticker |-> << >>,
                 isOtc |-> FALSE, alts |-> << >>]
           ELSE [by |-> "micro", threw |-> FALSE,
                 exchange |-> IF ex = << >> THEN << TV_DEFAULT_EX >> ELSE ex,
                 ticker |-> tk, isOtc |-> isOtcPair(str), alts |-> Names(AltList)]

\* part_002:138-140
canonKey(str) == SelectSeq(Upper(Trim(str)), LAMBDA t : t \notin { " ", "/" })

\* part_002:143-150, the entries of EUR/USD and EUR/USD-OTC
PAIR_MAP_keys == { << "EUR", "USD" >>, << "EUR", "USD", "-OTC" >> }

\* part_002:191-241, tvTicker and tvExchList of the result
resolveSymbol_iqtv(rawStr) ==
  LET given == IF rawStr = << >> THEN << "EUR", "/", "USD" >> ELSE rawStr
      str == Trim(given)
      parts == Split(str, 2)
      ex == Piece(parts, 1)
      tk == Piece(parts, 2)
      tkUp == Upper(tk)
      key == canonKey(str)
  IN  IF IncludesColon(str)
      THEN IF ex = Undefined \/ tk = Undefined
           THEN [by |-> "iqtv", threw |-> TRUE, ticker |-> << >>, isOtc |-> FALSE,
                 tvExchList |-> << >>]
           ELSE [by |-> "iqtv", threw |-> FALSE,
                 ticker |-> IF isOtcPair(tkUp) THEN SubSeq(tkUp, 1, Len(tkUp) - 1) ELSE tkUp,
                 isOtc |-> isOtcPair(tkUp),
                 tvExchList |-> << Upper(ex) >>]
      ELSE IF key \in PAIR_MAP_keys
      THEN [by |-> "iqtv", threw |-> FALSE, ticker |-> << "EUR", "USD" >>,
            isOtc |-> (key = << "EUR", "USD", "-OTC" >>),
            tvExchList |-> Names(TV_EXCH_FALLBACKS)]
      ELSE [by |-> "iqtv", threw |-> FALSE, ticker |-> ScrubPunct(Upper(str)),
            isOtc |-> isOtcPair(str), tvExchList |-> Names(TV_EXCH_FALLBACKS)]

\* a resolver is about to be called with some raw symbol string
InitResolve ==
  /\ program = "resolve"
  /\ SideIdle
  /\ scenario = "session"
  /\ raw \in Raws
  /\ resolved = NotResolved
  /\ faults = 0
  /\ chrome = [b \in BrowserIds |-> "none"]
  /\ pagesOpen = [b \in BrowserIds |-> 0]
  /\ launches = 0
  /\ launchesInFlight = 0
  /\ pc = [p \in Procs |-> "off"]
  /\ cands = [r \in Reqs |-> << >>]
  /\ tried = [r \in Reqs |-> << >>]
  /\ outcome = [r \in Reqs |-> << >>]
  /\ br = [p \in Procs |-> NoBrowser]
  /\ page = [r \in Reqs |-> NoBrowser]
  /\ resp = [p \in Procs |-> NoResp]
  /\ activeCaptures = 0
  /\ captureQueue = << >>
  /\ browser = NoBrowser
  /\ browserReady = FALSE
  /\ browserLaunching = FALSE
  /\ closeTarget = NoBrowser
  /\ mgr_browser = NoBrowser
  /\ mgr_launching = "none"
  /\ mgr_launchValue = NoBrowser
  /\ queue_active = 0
  /\ queue_q = << >>
  /\ urlIdx = [r \in Reqs |-> 0]
  /\ reply = [r \in Reqs |-> NoReply]
  /\ fetched = [r \in Reqs |-> NotFetched]
  /\ sharedPage = NoBrowser
  /\ pageShows = [b \in BrowserIds |-> NoChart]
  /\ want = [r \in Reqs |-> NoChart]
  /\ shotBytes = [r \in Reqs |-> "none"]
  /\ idleTicks = 0
  /\ asked = [r \in Reqs |-> << >>]
  /\ failure = [r \in Reqs |-> NoFailure]

\* part_000: resolveSymbol(rawPair) of /snapshot and /snapshot/:pair
ResolveMicro ==
  /\ program = "resolve"
  /\ resolved = NotResolved
  /\ resolved' = resolveSymbol(raw)
  /\ UNCHANGED << program, scenario, sideVars, raw, idleTicks, shotBytes, asked, failure, microVars, iqtvVars,
                  botVars, sharedVars, envVars, reqVars, pc, br, resp >>

\* part_002: resolveSymbol(rawTick) of /run
ResolveIqtv ==
  /\ program = "resolve"
  /\ resolved = NotResolved
  /\ resolved' = resolveSymbol_iqtv(raw)
  /\ UNCHANGED << program, scenario, sideVars, raw, idleTicks, shotBytes, asked, failure, microVars, iqtvVars,
                  botVars, sharedVars, envVars, reqVars, pc, br, resp >>

\* server.js:132, DEFAULT_EXCHANGE unset
DEFAULT_EXCHANGE == "FX"

\* server.js:224-225, _canon_key: strip, upper, no blanks, no "/", no "-"
canon_key(str) ==
  LET kept == SelectSeq(Upper(Trim(str)), LAMBDA t : t \notin { " ", "/" })
  IN  [i \in 1 .. Len(kept) |-> IF kept[i] = "-OTC" THEN "OTC" ELSE kept[i]]

\* server.js:227-247, the entries of EUR/USD and EUR/USD-OTC
PAIR_XREF_keys == { << "EUR", "USD" >>, << "EUR", "USD", "OTC" >> }

\* str.split(":", 1): what precedes the first colon, and all that follows it
SplitOnce(str) ==
  LET i == CHOOSE k \in 1 .. Len(str) : str[k] = ":" /\ \A j \in 1 .. (k - 1) : str[j] # ":"
  IN  << SubSeq(str, 1, i - 1), SubSeq(str, i + 1, Len(str)) >>

\* server.js:426-442
resolve_symbol(rawStr) ==
  IF rawStr = << >>
  THEN [by |-> "bot", threw |-> FALSE, exchange |-> << DEFAULT_EXCHANGE >>,
        ticker |-> << "EUR", "USD" >>, isOtc |-> FALSE, alts |-> Names(KNOWN_EXCHANGES_FX)]
  ELSE LET str == Upper(Trim(rawStr))
           is_otc == \E i \in 1 .. Len(str) : str[i] = "-OTC"
           key == canon_key(str)
       IN  IF key \in PAIR_XREF_keys
           THEN [by |-> "bot", threw |-> FALSE,
                 exchange |-> IF key = << "EUR", "USD" >> THEN << DEFAULT_EXCHANGE >>
                              ELSE << "QUOTEX" >>,
                 ticker |-> << "EUR", "USD" >>, isOtc |-> is_otc,
                 alts |-> IF key = << "EUR", "USD" >> THEN Names(KNOWN_EXCHANGES_FX)
                          ELSE Names(KNOWN_EXCHANGES_OTC \o KNOWN_EXCHANGES_FX)]
           ELSE IF IncludesColon(str)
           THEN [by |-> "bot", threw |-> FALSE, exchange |-> SplitOnce(str)[1],
                 ticker |-> SplitOnce(str)[2], isOtc |-> is_otc, alts |-> << >>]
           ELSE [by |-> "bot", threw |-> FALSE, exchange |-> << DEFAULT_EXCHANGE >>,
                 ticker |-> ScrubPunct(str), isOtc |-> is_otc,
                 alts |-> IF is_otc THEN Names(KNOWN_EXCHANGES_OTC)
                          ELSE Names(KNOWN_EXCHANGES_FX)]

\* server.js: resolve_symbol(raw) of the bot's commands
ResolveBot ==
  /\ program = "resolve"
  /\ resolved = NotResolved
  /\ resolved' = resolve_symbol(raw)
  /\ UNCHANGED << program, scenario, sideVars, raw, idleTicks, shotBytes, asked, failure, microVars, iqtvVars,
                  botVars, sharedVars, envVars, reqVars, pc, br, resp >>

NextResolve == ResolveMicro \/ ResolveIqtv \/ ResolveBot

(* ======================== program "shared" (index.js) ================== *)

\* the charts /run is asked for (exchange:ticker of the query string)
Charts == { "FX:EURUSD", "FX:GBPUSD" }

\* The state after start-up (lines 54-55, 417-419): no browser, no page
InitShared ==
  /\ program = "shared"
  /\ SideIdle
  /\ scenario = "load"
  /\ faults = 0
  /\ chrome = [b \in BrowserIds |-> "none"]
  /\ pagesOpen = [b \in BrowserIds |-> 0]
  /\ launches = 0
  /\ launchesInFlight = 0
  /\ pc = [p \in Procs |-> IF p \in Active THEN "idle" ELSE "off"]
  /\ cands = [r \in Reqs |-> << >>]
  /\ tried = [r \in Reqs |-> << >>]
  /\ outcome = [r \in Reqs |-> << >>]
  /\ br = [p \in Procs |-> NoBrowser]
  /\ page = [r \in Reqs |-> NoBrowser]
  /\ resp = [p \in Procs |-> NoResp]
  /\ activeCaptures = 0
  /\ captureQueue = << >>
  /\ browser = NoBrowser
  /\ browserReady = FALSE
  /\ browserLaunching = FALSE
  /\ closeTarget = NoBrowser
  /\ mgr_browser = NoBrowser
  /\ mgr_launching = "none"
  /\ mgr_launchValue = NoBrowser
  /\ queue_active = 0
  /\ queue_q = << >>
  /\ urlIdx = [r \in Reqs |-> 0]
  /\ reply = [r \in Reqs |-> NoReply]
  /\ fetched = [r \in Reqs |-> NotFetched]
  /\ sharedPage = NoBrowser
  /\ pageShows = [b \in BrowserIds |-> NoChart]
  /\ want = [r \in Reqs |-> NoChart]
  /\ shotBytes = [r \in Reqs |-> "none"]
  /\ idleTicks = 0
  /\ asked = [r \in Reqs |-> << >>]
  /\ failure = [r \in Reqs |-> NoFailure]
  /\ raw = << >>
  /\ resolved = NotResolved

\* ensureBrowser line 58: browser and page are there already
SharedReady == browser # NoBrowser /\ sharedPage # NoBrowser

\* GET /run (lines 389-400): ensureBrowser; with browser and page at hand on
\* into captureTradingView up to page.goto, else up to puppeteer.launch
SharedArrive(r, chart) ==
  /\ program = "shared"
  /\ pc[r] = "idle"
  /\ ArrivesNext(r)
  /\ chart \in Charts
  /\ want' = [want EXCEPT ![r] = chart]
  /\ IF SharedReady
     THEN /\ page' = [page EXCEPT ![r] = sharedPage]
          /\ pc' = [pc EXCEPT ![r] = "goto"]
          /\ UNCHANGED << launches, launchesInFlight >>
     ELSE /\ launches < MaxBrowsers
          /\ launches' = launches + 1
          /\ launchesInFlight' = launchesInFlight + 1
          /\ pc' = [pc EXCEPT ![r] = "launch"]
          /\ page' = page
  /\ UNCHANGED << program, scenario, sideVars, raw, resolved, failure, asked, idleTicks, shotBytes, microVars, iqtvVars, botVars, chrome, pagesOpen, faults,
                  cands, tried, outcome, br, resp, sharedPage, pageShows >>

\* ensureBrowser line 60: puppeteer.launch resolved, browser is assigned and
\* browser.newPage() called
SharedLaunched(r) ==
  /\ program = "shared"
  /\ pc[r] = "launch"
  /\ \E b \in BrowserIds : chrome[b] = "none"
  /\ chrome' = [chrome EXCEPT ![NewBrowserId] = "running"]
  /\ browser' = NewBrowserId
  /\ br' = [br EXCEPT ![r] = NewBrowserId]
  /\ launchesInFlight' = launchesInFlight - 1
  /\ pc' = [pc EXCEPT ![r] = "newPage"]
  /\ UNCHANGED << program, scenario, sideVars, raw, resolved, failure, asked, idleTicks, shotBytes, iqtvVars, botVars, sharedVars, pagesOpen, launches, faults,
                  reqVars, resp, slotVars, browserReady, browserLaunching, closeTarget >>

\* ensureBrowser lines 61-64 and captureTradingView lines 95-98: newPage
\* resolved, page is assigned and set up; /run goes on into
\* captureTradingView, whose ensureBrowser returns the page the variable
\* holds, and calls page.goto
SharedPageOpened(r) ==
  /\ program = "shared"
  /\ pc[r] = "newPage"
  /\ sharedPage' = br[r]
  /\ pagesOpen' = [pagesOpen EXCEPT ![br[r]] = @ + 1]
  /\ page' = [page EXCEPT ![r] = br[r]]
  /\ pc' = [pc EXCEPT ![r] = "goto"]
  /\ UNCHANGED << program, scenario, sideVars, raw, resolved, failure, asked, idleTicks, shotBytes, microVars, iqtvVars, botVars, chrome, launches,
                  launchesInFlight, faults, cands, tried, outcome, br, resp, pageShows, want >>

\* captureTradingView line 98: page.goto settled.  ok: the page displays the
\* chart asked for; else it threw and /run answers 500 (lines 403-406)
SharedGoto(r, ok) ==
  /\ program = "shared"
  /\ pc[r] = "goto"
  /\ ~ok => faults < MaxFaults
  /\ faults' = IF ok THEN faults ELSE faults + 1
  /\ IF ok
     THEN /\ pageShows' = [pageShows EXCEPT ![page[r]] = want[r]]
          /\ pc' = [pc EXCEPT ![r] = "settle"]
          /\ resp' = resp
     ELSE /\ pageShows' = pageShows
          /\ pc' = [pc EXCEPT ![r] = "done"]
          /\ resp' = [resp EXCEPT ![r] = Response(500, "text", "", FALSE)]
  /\ UNCHANGED << program, scenario, sideVars, raw, resolved, failure, asked, idleTicks, shotBytes, microVars, iqtvVars, botVars, chrome, pagesOpen, launches,
                  launchesInFlight, reqVars, br, sharedPage, want >>

\* captureTradingView lines 99-101 and /run lines 401-402: the settle delay
\* is over, page.screenshot() returns what the page displays
SharedShot(r) ==
  /\ program = "shared"
  /\ pc[r] = "settle"
  /\ resp' = [resp EXCEPT ![r] = Response(200, "image", pageShows[page[r]], FALSE)]
  /\ pc' = [pc EXCEPT ![r] = "done"]
  /\ UNCHANGED << program, scenario, sideVars, raw, resolved, failure, asked, idleTicks, shotBytes, microVars, iqtvVars, botVars, sharedVars, envVars, reqVars, br >>

NextShared ==
  \/ \E r \in Reqs, chart \in Charts : SharedArrive(r, chart)
  \/ \E r \in Reqs : SharedLaunched(r)
  \/ \E r \in Reqs : SharedPageOpened(r)
  \/ \E r \in Reqs, ok \in BOOLEAN : SharedGoto(r, ok)
  \/ \E r \in Reqs : SharedShot(r)

(* ================ program "cache" (part_002: /run and its cache) ======= *)

\* the position of key k in cache c, 0 when the Map has no such key
KeyIndex(c, k) ==
  IF \E i \in 1 .. Len(c) : c[i].key = k
  THEN CHOOSE i \in 1 .. Len(c) : c[i].key = k
  ELSE 0

\* cache c without its i-th entry (Map.delete)
Without(c, i) == [ j \in 1 .. (Len(c) - 1) |-> IF j < i THEN c[j] ELSE c[j + 1] ]

\* a bug: an entry is served whatever its age
cacheGetNoTtl(c, k, t) ==
  LET i == KeyIndex(c, k)
  IN  IF i = 0 THEN [buf |-> "none", cache |-> c]
      ELSE [buf |-> c[i].buf, cache |-> c]

\* part_002:266-271 cacheGet(url) at time t: the buffer returned ("none" for
\* null) and the cache it leaves
cacheGet(c, k, t) ==
  LET i == KeyIndex(c, k)
  IN  IF i = 0 THEN [buf |-> "none", cache |-> c]
      ELSE IF (t - c[i].ts) > CACHE_TTL_MS THEN [buf |-> "none", cache |-> Without(c, i)]
      ELSE [buf |-> c[i].buf, cache |-> c]

\* part_002:273 _cache.set(url, {ts, buf}): a key the Map holds keeps its place
MapSet(c, k, buf, t) ==
  LET i == KeyIndex(c, k)
  IN  IF i = 0 THEN Append(c, [key |-> k, ts |-> t, buf |-> buf])
      ELSE [c EXCEPT ![i] = [key |-> k, ts |-> t, buf |-> buf]]

\* part_002:276 the first entry of the (stable) sort by ts
Oldest(c) ==
  CHOOSE i \in 1 .. Len(c) :
    \A j \in 1 .. Len(c) : \/ c[i].ts < c[j].ts
                           \/ c[i].ts = c[j].ts /\ i <= j

\* part_002:272-279 cachePut(url, buf) at time t
cachePut(c, k, buf, t) ==
  LET set == MapSet(c, k, buf, t)
  IN  IF Len(set) > CACHE_MAX THEN Without(set, Oldest(set)) ELSE set

\* key k becomes the most recently used one
Touch(order, k) == SelectSeq(order, LAMBDA x : x # k) \o << k >>

\* the least recently used key among the entries of c
LeastRecentlyUsed(order, c) ==
  LET held == SelectSeq(order, LAMBDA x : KeyIndex(c, x) # 0)
  IN  held[1]

InitCache ==
  /\ program = "cache"
  /\ scenario = "session"
  /\ CaptureIdle
  /\ SideIdle

\* the clock advances (it matters once the cache holds an entry)
CacheTick ==
  /\ program = "cache"
  /\ now < MaxNow
  /\ cache # << >>
  /\ now' = now + 1
  /\ UNCHANGED << program, scenario, besideCache, cache, inflight, runs, served, useOrder,
                  evicted >>

\* part_002:508-545 GET /run with cache key k, up to the response from the
\* cache or to the await of the capture
Run(k) ==
  /\ program = "cache"
  /\ runs < NumRuns
  /\ k <= runs + 1        \* keys are interchangeable: they appear in order
  /\ runs' = runs + 1
  /\ LET got == cacheGet(cache, k, now)
     IN  /\ cache' = got.cache
         /\ IF got.buf # "none"
            THEN /\ served' = [key |-> k, from |-> "cache", buf |-> got.buf,
                               age |-> now - cache[KeyIndex(cache, k)].ts]
                 /\ useOrder' = Touch(useOrder, k)
                 /\ UNCHANGED inflight
            ELSE /\ inflight' = [inflight EXCEPT ![k] = @ + 1]
                 /\ UNCHANGED << served, useOrder >>
  /\ UNCHANGED << program, scenario, besideCache, now, evicted >>

\* part_002:546-555 the capture of a /run request for key k has settled
RunCaptured(k, ok) ==
  /\ program = "cache"
  /\ inflight[k] > 0
  /\ inflight' = [inflight EXCEPT ![k] = @ - 1]
  /\ IF ok
     THEN /\ cache' = cachePut(cache, k, "png", now)
          /\ useOrder' = Touch(useOrder, k)
          /\ evicted' = LET set == MapSet(cache, k, "png", now)
                        IN  IF Len(set) > CACHE_MAX
                            THEN [key |-> set[Oldest(set)].key,
                                  lru |-> LeastRecentlyUsed(useOrder', set)]
                            ELSE evicted
          /\ served' = [key |-> k, from |-> "capture", buf |-> "png", age |-> 0]
     ELSE /\ served' = [key |-> k, from |-> "none", buf |-> "none", age |-> 0]
          /\ UNCHANGED << cache, useOrder, evicted >>
  /\ UNCHANGED << program, scenario, besideCache, now, runs >>

NextCache ==
  \/ CacheTick
  \/ \E k \in Keys : Run(k)
  \/ \E k \in Keys, ok \in BOOLEAN : RunCaptured(k, ok)

(* ============ program "rate" (server.js: the bot's snapshot commands) === *)

\* the last two entries of a log
LastTwo(log) == IF Len(log) > 2 THEN Tail(log) ELSE log

\* server.js:551-557 rate_limited(chat_id) at time t, the value returned
rate_limited(c, t) == t - LAST_SNAPSHOT_PER_CHAT[c] < RATE_LIMIT_SECONDS

\* chats are interchangeable: the first command of a run comes from chatA
SpeaksNext(c) == c = "chatA" \/ commands > 0

InitRate ==
  /\ program = "rate"
  /\ scenario = "session"
  /\ CaptureIdle
  /\ SideIdle

\* a second passes
RateTick ==
  /\ program = "rate"
  /\ clock < StartTime + MaxSeconds
  /\ clock' = clock + 1
  /\ UNCHANGED << program, scenario, besideRate, LAST_SNAPSHOT_PER_CHAT, fetchStarts, admitted,
                  multiLeft, commands >>

\* server.js:613-626 send_snapshot_photo(chat_id, ...) as /snap (1026), /trade
\* (1090), the trade confirmation (958) and a text message (1139) call it, up
\* to the refusal or to the first await behind the limiter
SendSnapshotPhoto(c) ==
  /\ program = "rate"
  /\ commands < MaxCommands
  /\ SpeaksNext(c)
  /\ commands' = commands + 1
  /\ IF rate_limited(c, clock)
     THEN UNCHANGED << LAST_SNAPSHOT_PER_CHAT, admitted >>
     ELSE /\ LAST_SNAPSHOT_PER_CHAT' = [LAST_SNAPSHOT_PER_CHAT EXCEPT ![c] = clock]
          /\ admitted' = [admitted EXCEPT ![c] = @ + 1]
  /\ UNCHANGED << program, scenario, besideRate, clock, fetchStarts, multiLeft >>

\* server.js:634-637 send_snapshot_photo after the chat action and the
\* warm-up: fetch_snapshot_png_any starts
SnapshotFetch(c) ==
  /\ program = "rate"
  /\ admitted[c] > 0
  /\ admitted' = [admitted EXCEPT ![c] = @ - 1]
  /\ fetchStarts' = [fetchStarts EXCEPT ![c] = LastTwo(Append(@, clock))]
  /\ UNCHANGED << program, scenario, besideRate, clock, LAST_SNAPSHOT_PER_CHAT, multiLeft,
                  commands >>

\* server.js:1034-1051 cmd_snapmulti with n symbols (1061-1072 cmd_snapall
\* with the n pairs of ALL_PAIRS), up to the thread that builds the media
SnapMulti(c, n) ==
  /\ program = "rate"
  /\ commands < MaxCommands
  /\ SpeaksNext(c)
  /\ multiLeft[c] = 0
  /\ commands' = commands + 1
  /\ multiLeft' = [multiLeft EXCEPT ![c] = n]
  /\ UNCHANGED << program, scenario, besideRate, clock, LAST_SNAPSHOT_PER_CHAT, fetchStarts,
                  admitted >>

\* server.js:652-654 build_media_items_sync: the fetch of the next pair starts
MultiFetch(c) ==
  /\ program = "rate"
  /\ multiLeft[c] > 0
  /\ multiLeft' = [multiLeft EXCEPT ![c] = @ - 1]
  /\ fetchStarts' = [fetchStarts EXCEPT ![c] = LastTwo(Append(@, clock))]
  /\ UNCHANGED << program, scenario, besideRate, clock, LAST_SNAPSHOT_PER_CHAT, admitted,
                  commands >>

NextRate ==
  \/ RateTick
  \/ \E c \in Chats : SendSnapshotPhoto(c)
  \/ \E c \in Chats : SnapshotFetch(c)
  \/ \E c \in Chats, n \in PairCounts : SnapMulti(c, n)
  \/ \E c \in Chats : MultiFetch(c)

(* ============ program "service" (service.js and Set-TelegramWebhook.ps1: startBrowser) ============== *)

\* the calls of startBrowser that wait for puppeteer.launch
Launching == { c \in Callers : call[c] = "launching" }

InitService ==
  /\ program = "service"
  /\ scenario = "session"
  /\ CaptureIdle
  /\ SideIdle

\* service.js:14-19 startBrowser() up to its return or to the await of
\* puppeteer.launch (Set-TelegramWebhook.ps1:100-107 and index.js:57-60 test
\* and launch the same way)
startBrowser(c) ==
  /\ program = "service"
  /\ call[c] = "idle"
  /\ IF service_browser # NoBrowser
     THEN call' = [call EXCEPT ![c] = "returned"]
     ELSE call' = [call EXCEPT ![c] = "launching"]
  /\ UNCHANGED << program, scenario, besideService, service_browser, chromiums >>

\* service.js:19-33 puppeteer.launch resolved with a new Chromium: browser is
\* assigned and returned
startBrowserLaunched(c) ==
  /\ program = "service"
  /\ call[c] = "launching"
  /\ chromiums' = chromiums + 1
  /\ service_browser' = chromiums + 1
  /\ call' = [call EXCEPT ![c] = "returned"]
  /\ UNCHANGED << program, scenario, besideService >>

NextService ==
  \/ \E c \in Callers : startBrowser(c)
  \/ \E c \in Callers : startBrowserLaunched(c)

(* ============ program "confirm" (part_011: /trade and confirm_) ========= *)

\* the pairs a user types after /trade, as tokens; "_" is the underscore
TypedPairs == { << "EURUSD" >>, << "eurusd", "_", "otc" >> }

\* the directions, amounts and expiries a user types
TypedDirections == { "buy", "SELL", "hold" }
TypedAmounts == { "100.0", "2.5", "abc" }
TypedExpiries == { "5.5", "1", "0" }

\* String.prototype.toUpperCase on the tokens of a pair
PairToUpperCase(str) ==
  [ i \in 1 .. Len(str) |-> CASE str[i] = "eurusd" -> "EURUSD"
                              [] str[i] = "otc" -> "OTC"
                              [] OTHER -> str[i] ]

\* String.prototype.toLowerCase on a direction
ToLowerCase(s) ==
  CASE s = "SELL" -> "sell"
    [] s = "BUY" -> "buy"
    [] OTHER -> s

\* parseFloat(s), printed as a template literal prints the number
parseFloat(s) ==
  CASE s \in { "100", "100.0" } -> "100"
    [] s = "2.5" -> "2.5"
    [] s \in { "5", "5.5" } -> s
    [] s \in { "1", "0" } -> s
    [] OTHER -> "NaN"

\* parseInt(s), printed as a template literal prints the number
parseInt(s) ==
  CASE s \in { "100", "100.0" } -> "100"
    [] s = "2.5" -> "2"
    [] s \in { "5", "5.5" } -> "5"
    [] s \in { "1", "0" } -> s
    [] OTHER -> "NaN"

\* part_011:190-198: the value is a number greater than 0
Positive(n) == n \notin { "NaN", "0" }

\* the template literal `a_b_c...`: the pieces joined by underscores
RECURSIVE JoinUnderscore(_)
JoinUnderscore(pieces) ==
  IF Len(pieces) = 0 THEN << >>
  ELSE IF Len(pieces) = 1 THEN pieces[1]
  ELSE pieces[1] \o << "_" >> \o JoinUnderscore(Tail(pieces))

\* String.prototype.split('_')
RECURSIVE SplitUnderscore(_)
SplitUnderscore(str) ==
  IF \A i \in 1 .. Len(str) : str[i] # "_" THEN << str >>
  ELSE LET i == CHOOSE k \in 1 .. Len(str) : str[k] = "_" /\ \A j \in 1 .. (k - 1) : str[j] # "_"
       IN  << SubSeq(str, 1, i - 1) >> \o SplitUnderscore(SubSeq(str, i + 1, Len(str)))

\* the n-th element (from 0) an array destructuring binds
Element(parts, n) == IF n + 1 <= Len(parts) THEN parts[n + 1] ELSE Undefined

\* a piece of one token as the string it is
Text(piece) == IF Len(piece) = 1 THEN piece[1] ELSE "undefined"

InitConfirm ==
  /\ program = "confirm"
  /\ scenario = "session"
  /\ CaptureIdle
  /\ SideIdle

\* part_011:176-213 bot.command('trade') with four arguments
CommandTrade(pair, direction, amountStr, expiryStr) ==
  /\ program = "confirm"
  /\ callbackData = << >>
  /\ LET amount == parseFloat(amountStr)
         expiry == parseInt(expiryStr)
     IN  /\ ToLowerCase(direction) \in { "buy", "sell" }
         /\ Positive(amount)
         /\ Positive(expiry)
         /\ callbackData' = JoinUnderscore(<< << "confirm" >>, PairToUpperCase(pair),
                                              << ToLowerCase(direction) >>, << amount >>,
                                              << expiry >> >>)
         /\ shown' = [pair |-> PairToUpperCase(pair), direction |-> ToLowerCase(direction),
                      amount |-> amount, expiry |-> expiry]
  /\ UNCHANGED << program, scenario, besideConfirm, executed >>

\* part_011:218-254 bot.action(/confirm_/): the user pressed 'Execute Trade'
\* (the credentials are configured)
ActionConfirm ==
  /\ program = "confirm"
  /\ callbackData # << >>
  /\ executed = NoTrade
  /\ LET parts == SplitUnderscore(callbackData)
         pair == Element(parts, 2)
         direction == Element(parts, 3)
         amountStr == Element(parts, 4)
         expiryStr == Element(parts, 5)
     IN  executed' = [pair |-> pair, direction |-> Text(direction),
                      amount |-> parseFloat(Text(amountStr)),
                      expiry |-> parseInt(Text(expiryStr))]
  /\ UNCHANGED << program, scenario, besideConfirm, shown, callbackData >>

NextConfirm ==
  \/ \E pair \in TypedPairs, direction \in TypedDirections, amountStr \in TypedAmounts,
        expiryStr \in TypedExpiries : CommandTrade(pair, direction, amountStr, expiryStr)
  \/ ActionConfirm

(* ====== program "pending" (part_001: /webhook and /confirm-trade) ====== *)

\* part_001:19
MIN_CONFIDENCE == 70

\* the confidences the alerts carry
Confidences == { MIN_CONFIDENCE - 5, MIN_CONFIDENCE }

\* the decisions a /confirm-trade body carries: "" is a missing decision
DecisionBodies == { "YES", "no", "" }

\* String.prototype.toLowerCase on a decision
DecisionToLowerCase(d) == IF d = "YES" THEN "yes" ELSE d

\* a bug: the threshold is ten points too low
AutoTradesTenBelow(c) == c >= MIN_CONFIDENCE - 10

\* part_001:90 confidence >= MIN_CONFIDENCE && AUTO_TRADE_ENABLED
AutoTrades(c) == c >= MIN_CONFIDENCE

\* signals arrive in the order of their numbers
NextSignal(s) == confidence[s] = 0 /\ \A t \in Signals : t < s => confidence[t] # 0

\* requests are interchangeable: they arrive in the order of their numbers
NextDecision(q) == decide[q].pc = "idle" /\ \A p \in Decisions : p < q => decide[p].pc # "idle"

InitPending ==
  /\ program = "pending"
  /\ scenario = "session"
  /\ CaptureIdle
  /\ SideIdle

\* part_001:67-101 POST /webhook with a valid alert of confidence c, up to the
\* await of the Telegram message
Webhook(s, c) ==
  /\ program = "pending"
  /\ NextSignal(s)
  /\ confidence' = [confidence EXCEPT ![s] = c]
  /\ IF AutoTrades(c)
     THEN /\ announcing' = announcing \cup { s }
          /\ UNCHANGED pendingTrade
     ELSE /\ pendingTrade' = s
          /\ UNCHANGED announcing
  /\ UNCHANGED << program, scenario, besidePending, placed, decide, wiped >>

\* part_001:91-92 the message is out: the trade trigger is called
WebhookAutoTrade(s) ==
  /\ program = "pending"
  /\ s \in announcing
  /\ announcing' = announcing \ { s }
  /\ placed' = [placed EXCEPT ![s] = @ + 1]
  /\ UNCHANGED << program, scenario, besidePending, pendingTrade, confidence, decide, wiped >>

\* part_001:51-55 POST /confirm-trade with body decision d, up to the first
\* await or to the response
ConfirmTrade(q, d) ==
  /\ program = "pending"
  /\ NextDecision(q)
  /\ LET decision == DecisionToLowerCase(d)
     IN  IF pendingTrade # NoSignal /\ decision # ""
         THEN IF decision = "yes"
              THEN /\ placed' = [placed EXCEPT ![pendingTrade] = @ + 1]
                   /\ decide' = [decide EXCEPT ![q] = [pc |-> "triggering", decision |-> decision,
                                                       found |-> pendingTrade]]
              ELSE /\ decide' = [decide EXCEPT ![q] = [pc |-> "messaging", decision |-> decision,
                                                       found |-> pendingTrade]]
                   /\ UNCHANGED placed
         ELSE /\ decide' = [decide EXCEPT ![q] = [pc |-> "done", decision |-> decision,
                                                  found |-> pendingTrade]]
              /\ UNCHANGED placed
  /\ UNCHANGED << program, scenario, besidePending, pendingTrade, confidence, announcing, wiped >>

\* part_001:55-56 the trade trigger answered: pendingTrade.join(', ') is read
\* for the message, which throws when pendingTrade is null by now
ConfirmTriggered(q) ==
  /\ program = "pending"
  /\ decide[q].pc = "triggering"
  /\ decide' = [decide EXCEPT ![q].pc = IF pendingTrade = NoSignal THEN "threw" ELSE "messaging"]
  /\ UNCHANGED << program, scenario, besidePending, pendingTrade, confidence, announcing, placed,
                  wiped >>

\* part_001:60-62 the Telegram message is out: pendingTrade = null
ConfirmCleared(q) ==
  /\ program = "pending"
  /\ decide[q].pc = "messaging"
  /\ decide' = [decide EXCEPT ![q].pc = "done"]
  /\ pendingTrade' = NoSignal
  /\ wiped' = IF pendingTrade \notin { NoSignal, decide[q].found }
              THEN wiped \cup { pendingTrade }
              ELSE wiped
  /\ UNCHANGED << program, scenario, besidePending, confidence, announcing, placed >>

NextPending ==
  \/ \E s \in Signals, c \in Confidences : Webhook(s, c)
  \/ \E s \in Signals : WebhookAutoTrade(s)
  \/ \E q \in Decisions, d \in DecisionBodies : ConfirmTrade(q, d)
  \/ \E q \in Decisions : ConfirmTriggered(q)
  \/ \E q \in Decisions : ConfirmCleared(q)

(* ======== program "fsm" (server.js: the inline trade flow) ============== *)

\* server.js:867 needed
Needed == { "pair", "direction", "expiry", "size_mode", "size_value" }

\* server.js:581-582 _fsm_reset(uid): the dictionary keeps "flow" alone
fsm_reset == { }

\* server.js:865-870 _fsm_complete(uid), whether it returns the dictionary
fsm_complete(f) == Needed \subseteq f

\* how the awaits of the CONF:ok branch end: all return ("sent"), the
\* notification raises before the trade is sent ("raised_before"), or a
\* Telegram call of the snapshot step raises after it ("raised_after")
ConfOutcomes == { "sent", "raised_before", "raised_after" }

InitFsm ==
  /\ program = "fsm"
  /\ scenario = "session"
  /\ CaptureIdle
  /\ SideIdle

\* server.js:1165-1186 on_callback, CAT:<name> (with the category stored) and
\* BK:CATMENU: the flow is reset
CallbackCategory(withCat) ==
  /\ program = "fsm"
  /\ USER_FSM' = IF withCat THEN fsm_reset \cup { "cat" } ELSE fsm_reset
  /\ chosen' = { }
  /\ UNCHANGED << program, scenario, besideFsm, trades >>

\* server.js:1334-1341 on_callback, BK:CANCEL
CallbackCancel ==
  /\ program = "fsm"
  /\ USER_FSM' = fsm_reset
  /\ chosen' = { }
  /\ UNCHANGED << program, scenario, besideFsm, trades >>

\* server.js:1189-1210 PR:, 1225-1236 DIR:, 1251-1263 EXP:, 1279-1294 SZM:,
\* 1311-1331 SIZ:: the selection is stored under its key (the BK: branches
\* of navigation store nothing)
CallbackSelect(key) ==
  /\ program = "fsm"
  /\ USER_FSM' = USER_FSM \cup { key }
  /\ chosen' = chosen \cup { key }
  /\ UNCHANGED << program, scenario, besideFsm, trades >>

\* server.js:1344-1359 on_callback, CONF:ok, with execute_trade_and_snapshot
\* (915-961); updates are handled one at a time (1493-1505: no
\* concurrent_updates), so the branch runs to its end before the next callback
CallbackConfirm(ending) ==
  /\ program = "fsm"
  /\ trades < MaxTrades
  /\ IF ~fsm_complete(USER_FSM)
     THEN UNCHANGED << USER_FSM, chosen, trades >>
     ELSE CASE ending = "raised_before" -> UNCHANGED << USER_FSM, chosen, trades >>
            [] ending = "raised_after" -> /\ trades' = trades + 1
                                           /\ chosen' = { }
                                           /\ UNCHANGED USER_FSM
            [] OTHER -> /\ trades' = trades + 1
                        /\ chosen' = { }
                        /\ USER_FSM' = fsm_reset
  /\ UNCHANGED << program, scenario, besideFsm >>

NextFsm ==
  \/ \E withCat \in BOOLEAN : CallbackCategory(withCat)
  \/ CallbackCancel
  \/ \E key \in Needed : CallbackSelect(key)
  \/ \E ending \in ConfOutcomes : CallbackConfirm(ending)

(* ============== program "auto" (part_008 webhook server) ================ *)

\* The express server of part_008:111-255. A signal s is followed through
\* /webhook and sendTradeToUIVision / retryTrade:
\*   "idle"     not posted yet
\*   "notify"   /webhook awaits the 'Signal received' message (line 224)
\*   "refused"  auto mode was off at line 225 (answered, nothing dispatched)
\*   "posting"  axios.post to UI.Vision is in flight (line 172): a dispatch
\*   "sent"     the post succeeded
\*   "failed"   the post threw; the 'Trade failed' message is awaited (180)
\*   "timer"    retryTrade's setTimeout is pending (line 186)

\* msg.text.toLowerCase() of a /auto message, as its words
AutoTexts == { << "/auto", "on" >>, << "/auto", "off" >>, << "/auto" >> }

\* text.includes('on') (line 203): some word of the text holds the letters on
IncludesOn(text) == \E i \in 1 .. Len(text) : text[i] \in { "on" }

InitAuto ==
  /\ program = "auto"
  /\ scenario = "session"
  /\ CaptureIdle
  /\ SideIdle

\* /telegram handler, lines 193-216, a /auto message: line 203 runs before
\* the handler's first await
AutoCommand(text) ==
  /\ program = "auto"
  /\ autoTradeEnabled' = IncludesOn(text)
  /\ UNCHANGED << program, scenario, besideAuto, hook >>

\* /webhook, lines 219-224: up to the await of the first message
HookReceive(s) ==
  /\ program = "auto"
  /\ hook[s] = "idle"
  /\ hook' = [hook EXCEPT ![s] = "notify"]
  /\ UNCHANGED << program, scenario, besideAuto, autoTradeEnabled >>

\* /webhook, lines 225-229: the switch is read; sendTradeToUIVision runs up
\* to its post (line 172) in the same step
HookDecide(s) ==
  /\ program = "auto"
  /\ hook[s] = "notify"
  /\ hook' = [hook EXCEPT ![s] = IF autoTradeEnabled THEN "posting" ELSE "refused"]
  /\ UNCHANGED << program, scenario, besideAuto, autoTradeEnabled >>

\* sendTradeToUIVision, lines 171-180: the post settles
PostSettle(s, ok) ==
  /\ program = "auto"
  /\ hook[s] = "posting"
  /\ hook' = [hook EXCEPT ![s] = IF ok THEN "sent" ELSE "failed"]
  /\ UNCHANGED << program, scenario, besideAuto, autoTradeEnabled >>

\* sendTradeToUIVision line 181 and retryTrade lines 185-190: after the
\* failure message the timer is set, whatever the number of earlier tries
RetryTrade(s) ==
  /\ program = "auto"
  /\ hook[s] = "failed"
  /\ hook' = [hook EXCEPT ![s] = "timer"]
  /\ UNCHANGED << program, scenario, besideAuto, autoTradeEnabled >>

\* the timer callback, lines 187-188: sendTradeToUIVision is called again and
\* runs up to its post
RetryTimer(s) ==
  /\ program = "auto"
  /\ hook[s] = "timer"
  /\ hook' = [hook EXCEPT ![s] = "posting"]
  /\ UNCHANGED << program, scenario, besideAuto, autoTradeEnabled >>

NextAuto ==
  \/ \E text \in AutoTexts : AutoCommand(text)
  \/ \E s \in Hooks : HookReceive(s)
  \/ \E s \in Hooks : HookDecide(s)
  \/ \E s \in Hooks, ok \in BOOLEAN : PostSettle(s, ok)
  \/ \E s \in Hooks : RetryTrade(s)
  \/ \E s \in Hooks : RetryTimer(s)

(* ============== program "prompt" (bot/commands/help.js) ================= *)

\* The polling bot of help.js:17-84. The library emits 'message' for every
\* message it receives, whatever its chat and text, and then calls the
\* onText callbacks whose pattern the text matches.

MessageTexts == { "/trade", "EUR/USD BUY 1m" }

\* bot.once('message', ...), lines 32-46: every listener registered at the
\* time fires on message m of chat c and is removed; the listener of a
\* prompt of chat p inserts the trade and answers chat p
Consumed(c, m) ==
  { [prompt |-> p, from |-> c, msg |-> m] : p \in { q \in Chats : listeners[q] > 0 } }

InitPrompt ==
  /\ program = "prompt"
  /\ scenario = "session"
  /\ CaptureIdle
  /\ SideIdle

\* a message of chat c arrives: the 'message' listeners run (lines 32-46),
\* then bot.onText(/\/trade/) (lines 26-30) when the text matches
Message(c, text) ==
  /\ program = "prompt"
  /\ messages < MaxMessages
  /\ messages' = messages + 1
  /\ recorded' = recorded \cup Consumed(c, messages + 1)
  /\ listeners' = [p \in Chats |-> 0]
  /\ prompting' = IF text = "/trade"
                  THEN [prompting EXCEPT ![c] = @ + 1]
                  ELSE prompting
  /\ UNCHANGED << program, scenario, besidePrompt >>

\* bot.sendMessage(...).then(sent => bot.once('message', ...)), lines 29-32:
\* the prompt of chat c was sent, or the send failed and nothing listens
PromptSent(c, ok) ==
  /\ program = "prompt"
  /\ prompting[c] > 0
  /\ prompting' = [prompting EXCEPT ![c] = @ - 1]
  /\ listeners' = IF ok THEN [listeners EXCEPT ![c] = @ + 1] ELSE listeners
  /\ UNCHANGED << program, scenario, besidePrompt, messages, recorded >>

NextPrompt ==
  \/ \E c \in Chats, text \in MessageTexts : Message(c, text)
  \/ \E c \in Chats, ok \in BOOLEAN : PromptSent(c, ok)

Init == InitMicro \/ InitIqtv \/ InitBot \/ InitShared \/ InitResolve \/ InitCache \/ InitRate \/ InitService \/ InitConfirm \/ InitPending \/ InitFsm \/ InitAuto \/ InitPrompt

Next == NextMicro \/ NextIqtv \/ NextBot \/ NextShared \/ NextResolve \/ NextCache \/ NextRate \/ NextService \/ NextConfirm \/ NextPending \/ NextFsm \/ NextAuto \/ NextPrompt

Spec == Init /\ [][Next]_vars

SpecMicro == InitMicro /\ [][NextMicro]_vars

SpecIqtv == InitIqtv /\ [][NextIqtv]_vars

SpecBot == InitBot /\ [][NextBot]_vars

SpecShared == InitShared /\ [][NextShared]_vars

SpecResolve == InitResolve /\ [][NextResolve]_vars

SpecCache == InitCache /\ [][NextCache]_vars

SpecRate == InitRate /\ [][NextRate]_vars

SpecService == InitService /\ [][NextService]_vars

SpecConfirm == InitConfirm /\ [][NextConfirm]_vars

SpecPending == InitPending /\ [][NextPending]_vars

SpecFsm == InitFsm /\ [][NextFsm]_vars

\* the three programs that capture a chart through a chain of exchanges
InitCapture == InitMicro \/ InitIqtv \/ InitBot

NextCapture == NextMicro \/ NextIqtv \/ NextBot

SpecCapture == InitCapture /\ [][NextCapture]_vars

\* node runs every pending continuation and timer callback, and a post to
\* UI.Vision settles (it succeeds, or it throws when nothing answers)
SpecAuto ==
  /\ InitAuto
  /\ [][NextAuto]_vars
  /\ \A s \in Hooks :
       /\ WF_vars(HookDecide(s))
       /\ WF_vars(\E ok \in BOOLEAN : PostSettle(s, ok))
       /\ WF_vars(RetryTrade(s))
       /\ WF_vars(RetryTimer(s))

SpecPrompt == InitPrompt /\ [][NextPrompt]_vars

(* ============================== claims ================================= *)

\* the run is one of the two capture services, part_000 or part_002
CaptureService == program \in { "micro", "iqtv" }

AllFinished == \A r \in Reqs : pc[r] \in { "off", "done", "crashed" }

\* requests that hold a concurrency slot and are capturing
Holders ==
  IF program = "micro"
  THEN { r \in Reqs : pc[r] \in { "attempt", "poll", "launch", "newPage", "drive" } }
  ELSE { r \in Reqs : pc[r] \in { "open", "drive" } }

Queued == { r \in Reqs : pc[r] = "queued" }

\* C1: in part_000 and part_002, under any interleaving of capture requests, the captures that hold a
\* slot at the same time (and the counters activeCaptures / AsyncQueue.active,
\* and the pages open for them) never exceed the cap, and a request that had
\* to queue starts capturing only in a step in which a holder finishes.
C1_CapRespected ==
  /\ [](/\ activeCaptures <= MAX_CONCURRENT_CAPTURES
        /\ queue_active <= MAX_CONCURRENT_PAGES
        /\ program = "micro" => Cardinality(Holders) <= MAX_CONCURRENT_CAPTURES
        /\ program = "iqtv" => Cardinality(Holders) <= MAX_CONCURRENT_PAGES
        /\ program \in { "micro", "iqtv" } =>
             Cardinality({ r \in Reqs : page[r] # NoBrowser }) <= MAX_CONCURRENT_PAGES)
  /\ [][\A r \in Reqs :
          (r \in Queued /\ r \notin Queued') =>
             \E h \in Reqs \ {r} : h \in Holders /\ h \notin Holders']_vars

\* C1 witness: the cap is reached and a further request waits in the queue
C1_Witness ==
  /\ Queued # { }
  /\ Cardinality(Holders) =
       IF program = "micro" THEN MAX_CONCURRENT_CAPTURES ELSE MAX_CONCURRENT_PAGES

\* the fallback call of r returned a capture / the source it reported
Succeeded(r) ==
  IF program = "bot" THEN fetched[r].state = "returned" ELSE resp[r].status = 200

SourceUsed(r) == IF program = "bot" THEN fetched[r].ex ELSE resp[r].used

\* C2: the candidates of one fallback call (captureWithFallback,
\* attemptAutoScreenshot, fetch_snapshot_png_any) are attempted in list order, one
\* at a time; the call stops at the first success, reports that candidate as
\* the source used and attempts nothing after it.
C2_FallbackOrder ==
  \A r \in Reqs :
   program \in { "micro", "iqtv", "bot" } =>
    /\ Len(tried[r]) <= Len(cands[r])
    /\ tried[r] = SubSeq(cands[r], 1, Len(tried[r]))
    /\ Len(outcome[r]) = Len(tried[r])
    /\ \A i \in 1 .. Len(outcome[r]) :
         /\ i < Len(outcome[r]) => outcome[r][i] = "fail"
         /\ outcome[r][i] = "ok" =>
              /\ pc[r] = "done"
              /\ Succeeded(r)
              /\ SourceUsed(r) = cands[r][i]
    /\ Succeeded(r) => outcome[r] # << >> /\ outcome[r][Len(outcome[r])] = "ok"

\* C2 witness: the first two candidates failed and the third succeeded
C2_Witness ==
  \E r \in Reqs :
    /\ outcome[r] = << "fail", "fail", "ok" >>
    /\ Succeeded(r)
    /\ SourceUsed(r) = cands[r][3]

\* C3: every response of a capture endpoint carries an image body, also when
\* every candidate failed or no browser could be launched.
C3_AlwaysImage ==
  \A r \in Reqs : (CaptureService /\ resp[r] # NoResp) => resp[r].body = "image"

\* C4: every page and slot obtained for an attempt is released on every exit
\* path: once all requests have finished no page is open and no slot taken.
C4_AllReleased ==
  (CaptureService /\ AllFinished) =>
    /\ \A b \in BrowserIds : pagesOpen[b] = 0
    /\ activeCaptures = 0
    /\ queue_active = 0

\* C5: in launchBrowserIfNeeded (part_000) and BrowserManager (part_002),
\* while a browser launch is in progress its callers share it:
\* puppeteer.launch is never invoked again before that launch has settled.
C5_OneLaunchInFlight == program \in { "micro", "iqtv" } => launchesInFlight <= 1

\* C5 witness: one launch in flight and two more callers waiting for it
C5_Witness ==
  /\ launchesInFlight = 1
  /\ Cardinality({ p \in Procs : pc[p] \in { "poll", "awaitLaunch" } }) >= 2

\* C6: the session-ensure operation never hands a caller the handle of a
\* browser that has disconnected (it launches a new one instead).
C6_NoDisconnectedHandle ==
  [][\A p \in Procs :
       (br'[p] # br[p] /\ br'[p] # NoBrowser) => chrome'[br'[p]] = "running"]_vars

\* callers of the session-ensure operation waiting on the launch guard
WaitingOnGuard == { p \in Procs : pc[p] \in { "poll", "awaitLaunch" } }

\* C7: a failed launch resets the launch guard: a session-ensure call made
\* after it waits neither on the failed launch (to have its failure replayed)
\* nor on a guard left set with no launch in flight (to wait forever); when
\* no browser is at hand and no launch in flight, the call starts a launch.
C7_GuardReset ==
  [][\A p \in Procs :
       (p \notin WaitingOnGuard /\ p \in WaitingOnGuard') =>
          /\ mgr_launching' # "rejected"
          /\ program = "micro" => launchesInFlight' >= 1
          /\ (launchesInFlight = 0 /\ mgr_launching = "rejected") => launches' = launches + 1]_vars

\* C8: /start-browser answers 200 only when the ensure operation handed it a
\* browser session that is ready; a request whose launch (its own or the one
\* it waited on) failed has no such session and is answered 500.
C8_StartBrowserStatus ==
  [][\A s \in Starts :
       (resp[s] = NoResp /\ resp'[s] # NoResp /\ resp'[s].status = 200) =>
          (br'[s] # NoBrowser /\ chrome'[br'[s]] = "running")]_vars

\* C9: an attempt whose navigation failed is a failed attempt: no response
\* is the screenshot of a page whose page.goto threw.
C9_NavErrorFails ==
  \A r \in Reqs : resp[r].status = 200 => ~resp[r].navFailed

\* C10: a fallback call ends with a success or with all candidates tried and
\* failed; no failure inside a candidate ends the handler by an exception
\* that leaves the request unanswered.
C10_TwoOutcomes ==
  \A r \in Reqs :
    /\ pc[r] # "crashed"
    /\ (CaptureService /\ pc[r] = "done") =>
         /\ resp[r] # NoResp
         /\ resp[r].status = 200 \/ Len(tried[r]) = Len(cands[r])

\* C11: a request that found every slot taken is not turned away and does
\* not wait for ever: while it is queued it has been sent no error, and some
\* holder is still at work, whose release will hand the slot on.
C11_QueuedServed ==
  \A r \in Reqs : pc[r] = "queued" => resp[r] = NoResp /\ Holders # { }

\* the queue of waiting requests of the program that runs
WaitQueue == IF program = "micro" THEN captureQueue ELSE queue_q

\* C12: waiting requests are granted slots in arrival order: the queue grows
\* at its tail only, the request that leaves it is its head, and no request
\* is granted a slot at once while another one waits.
C12_Fifo ==
  [][/\ \/ WaitQueue' = WaitQueue
        \/ \E r \in Reqs : WaitQueue' = Append(WaitQueue, r)
        \/ WaitQueue # << >> /\ WaitQueue' = Tail(WaitQueue)
     /\ \A r \in Reqs :
          /\ (r \in Queued /\ r \notin Queued') => r = Head(WaitQueue)
          /\ (r \notin Queued /\ r \notin Holders /\ r \in Holders') => WaitQueue = << >>
     /\ \A i \in 1 .. Len(WaitQueue) : WaitQueue[i] \in Queued]_vars

\* C12 witness: two requests waited; a release has just granted the slot to
\* the earlier one (it has not yet begun its first candidate) and the later
\* one is still queued
C12_Witness ==
  \E r, w \in Reqs :
    /\ pc[r] = "attempt" /\ tried[r] = << >>
    /\ WaitQueue = << w >>
    /\ r[2] < w[2]

\* C13: at most one launched, not yet closed browser process exists, and a
\* browser process that is running is the one the manager holds.
C13_OneBrowser ==
  CaptureService =>
    /\ Cardinality({ b \in BrowserIds : chrome[b] = "running" }) <= 1
    /\ \A b \in BrowserIds : chrome[b] = "running" => ManagerBrowser = b

\* C14: a capture has its page to itself from navigation to screenshot: the
\* image a request is answered with shows the chart that request asked for.
C14_PageExclusive ==
  \A r \in Reqs :
    (program = "shared" /\ resp[r].status = 200) => resp[r].used = want[r]

\* C15: an attempt reported successful has an image longer than the
\* minimum-size floor (the size that tells a rendered chart from a blank
\* screenshot); an undersized screenshot is a failed attempt.
C15_SizeFloor ==
  \A r \in Reqs :
    (CaptureService /\ outcome[r] # << >> /\ outcome[r][Len(outcome[r])] = "ok") =>
      shotBytes[r] = "full"

\* C16: a session idle (no page in use) for longer than the idle timeout is
\* closed: the manager never holds a running browser that has been idle for
\* MaxIdleTicks ticks of the clock.
C16_IdleClosed == ~(SessionIdle /\ idleTicks >= MaxIdleTicks)

\* the position of the first occurrence of x in seq
FirstIndex(seq, x) ==
  CHOOSE i \in 1 .. Len(seq) : seq[i] = x /\ \A j \in 1 .. (i - 1) : seq[j] # x

\* the exchanges a fallback call was given, primary first, in upper case
AskedUpper(r) ==
  LET given == << asked[r][1] >> \o asked[r][2]
  IN  [i \in 1 .. Len(given) |-> ToUpperCase(given[i])]

\* C17: the candidate sequence of a fallback call starts with the primary
\* exchange, goes on with the fallbacks in the order given, names every
\* exchange given and none twice (compared in upper case, first occurrence
\* kept).
C17_DedupOrder ==
  \A r \in Reqs :
    (program \in { "micro", "bot" } /\ asked[r] # << >>) =>
      \E up \in { AskedUpper(r) }, c \in { cands[r] } :
          /\ c # << >> /\ c[1] = up[1]
          /\ \A i, j \in 1 .. Len(c) : i # j => c[i] # c[j]
          /\ \A i \in 1 .. Len(up) : \E k \in 1 .. Len(c) : c[k] = up[i]
          /\ \A k \in 1 .. Len(c) : \E i \in 1 .. Len(up) : c[k] = up[i]
          /\ \A k \in 1 .. (Len(c) - 1) :
               FirstIndex(up, c[k]) < FirstIndex(up, c[k + 1])

\* C17 witness: the primary exchange was given in lower case and again, in
\* upper case, among the fallbacks; the candidates name it once, first
C17_Witness ==
  \E r \in Reqs :
    /\ asked[r] # << >>
    /\ asked[r][1] = "fx"
    /\ \E i \in 1 .. Len(asked[r][2]) : asked[r][2][i] = "FX"
    /\ cands[r][1] = "FX"
    /\ Len(cands[r]) < 1 + Len(asked[r][2])
    /\ Len(tried[r]) >= 2

\* a request served with the default configuration: /run of part_000 without
\* exchange=, /run of part_002 with source=auto and a plain pair
DefaultChain(r) ==
  \/ program = "micro" /\ asked[r] = DefaultConf
  \/ program = "iqtv" /\ cands[r] = AutoSources(TV_EXCH_FALLBACKS)

\* the attempts of r that failed
FailedAttempts(r) == { i \in 1 .. Len(outcome[r]) : outcome[r][i] = "fail" }

\* the captures for FX and FX_IDC failed and the one for OANDA succeeded
FailsUntilOanda(r) ==
  /\ DefaultChain(r)
  /\ \E i, j \in FailedAttempts(r) : tried[r][i] = "FX" /\ tried[r][j] = "FX_IDC"
  /\ Succeeded(r)
  /\ SourceUsed(r) = "OANDA"

SourcesBeforeOanda ==
  IF program = "micro" THEN FirstIndex(Dedup(DefaultConf[1], DefaultConf[2]), "OANDA") - 1
  ELSE FirstIndex(AutoSources(TV_EXCH_FALLBACKS), "OANDA") - 1

AllCandidatesFailed(r) ==
  /\ cands[r] # << >>
  /\ Len(outcome[r]) = Len(cands[r])
  /\ \A i \in 1 .. Len(outcome[r]) : outcome[r][i] = "fail"
  /\ IF program = "bot" THEN fetched[r].state = "raised"
     ELSE resp[r].status \in { 404, 500 }

\* C19 as stated: when no candidate succeeds the failure returned to the
\* caller contains the error of every attempted candidate, one per candidate,
\* in attempt order.
C19_EveryErrorReturned ==
  \A r \in Reqs :
    AllCandidatesFailed(r) =>
      failure[r].errors = [i \in 1 .. Len(tried[r]) |-> ErrOf(tried[r][i])]

\* C19, amended: when no candidate succeeds the failure returned to the
\* caller contains the error of the last attempted candidate only, and names
\* every attempted candidate in attempt order (captureWithFallback,
\* fetch_snapshot_png_any); the auto chain of attemptAutoScreenshot returns a
\* fixed message with no candidate's error or name.
C19_LastErrorReturned ==
  \A r \in Reqs :
    AllCandidatesFailed(r) =>
      IF program = "iqtv" /\ Len(cands[r]) > 1
      THEN failure[r] = NoFailure
      ELSE /\ failure[r].errors = << ErrOf(cands[r][Len(cands[r])]) >>
           /\ program \in { "micro", "bot" } => failure[r].names = cands[r]

\* C19 witness: captureWithFallback has failed on all six exchanges of the
\* default chain and its caller holds the error of the last one
C19_Witness ==
  \E r \in Reqs :
    /\ program = "micro"
    /\ AllCandidatesFailed(r)
    /\ Len(tried[r]) = 6
    /\ failure[r].errors = << ErrOf("IDC") >>

\* the candidate list a resolver's result stands for: part_000 exchange and
\* alts (handed on as exchange, altExchanges), part_002 tvExchList, server.js
\* primary_ex and alt_exchanges
Candidates(res) ==
  IF res.by = "iqtv" THEN res.tvExchList ELSE << res.exchange >> \o res.alts

\* C20: in part_000 and part_002, for every raw symbol string, empty and garbage included, the resolver
\* returns without throwing and yields a non-empty candidate list; the empty
\* string resolves to the default symbol (EURUSD, on the default exchange list).
C20_ResolverTotal ==
  resolved.by \in { "micro", "iqtv" } =>
    /\ ~resolved.threw
    /\ Candidates(resolved) # << >>
    /\ raw = << >> =>
         /\ resolved.ticker = << "EUR", "USD" >>
         /\ ~resolved.isOtc
         /\ Candidates(resolved) =
              IF resolved.by = "micro" THEN Names(<< "FX" >> \o EXCHANGE_FALLBACKS)
              ELSE Names(TV_EXCH_FALLBACKS)

\* C20 witness: garbage with a colon in it has been resolved: no ticker is
\* left of it, yet the candidate list is not empty
C20_Witness ==
  /\ resolved # NotResolved
  /\ raw = << "#", ":", "/" >>
  /\ resolved.ticker = << >>
  /\ Candidates(resolved) # << >>

\* a pair of two different currencies, with or without a slash, and the
\* suffix -OTC
IsOtcPair(str) ==
  /\ Len(str) \in { 3, 4 }
  /\ str[Len(str)] = "-OTC"
  /\ { str[1], str[Len(str) - 1] } = { "EUR", "usd" }
  /\ Len(str) = 4 => str[2] = "/"

\* the two currencies of an OTC pair, in upper case, nothing else
Underlying(str) == << ToUpperCase(str[1]), ToUpperCase(str[Len(str) - 1]) >>

\* C21: every OTC-suffixed pair resolves to its underlying ticker, separators
\* and OTC suffix removed, with the OTC flag set.
C21_OtcMapping ==
  (resolved # NotResolved /\ IsOtcPair(raw)) =>
    /\ resolved.isOtc
    /\ resolved.ticker = Underlying(raw)

\* the body of a response is an image
ImageBody(rep) == rep.body \in { "png", "jpeg" }

\* r's fetch took the response it got last for a capture
TakenAsCapture(r) == fetched[r].state = "returned"

\* C22 as stated: the snapshot client takes a response for a successful
\* capture exactly when its body is an image, whatever the status code.
C22_ImageBodyDecides ==
  \A r \in Reqs : reply[r] # NoReply => (TakenAsCapture(r) <=> ImageBody(reply[r]))

\* C22, amended: the snapshot client takes a response for a successful
\* capture exactly when its body starts with the PNG signature, whatever the
\* status code, or when the status is 200, the Content-Type starts with
\* "image" and the body is not empty.
C22_PngOrImageHeader ==
  \A r \in Reqs :
    reply[r] # NoReply =>
      (TakenAsCapture(r) <=>
         \/ reply[r].body = "png"
         \/ /\ reply[r].status = 200
            /\ reply[r].ct \in { "image/png", "image/jpeg" }
            /\ reply[r].body # "empty")

\* C22 witness: a 500 response whose body is a PNG was taken for the capture
C22_Witness ==
  \E r \in Reqs :
    /\ reply[r].status = 500
    /\ reply[r].body = "png"
    /\ TakenAsCapture(r)
    /\ fetched[r].ex = tried[r][Len(tried[r])]

(* ---- C23: the screenshot cache is a bounded LRU cache ---- *)

\* C23 (first half): the cache never holds more than CACHE_MAX entries
C23_Bounded == program = "cache" => Len(cache) <= CACHE_MAX

\* C23: the cache holds at most CACHE_MAX entries, and the entry cachePut
\* deletes on overflow is the least recently used one, a hit being a use
C23_LruEviction ==
  program = "cache" =>
    /\ Len(cache) <= CACHE_MAX
    /\ evicted # NoEviction => evicted.key = evicted.lru

(* ---- C24: nothing older than CACHE_TTL_MS is served from the cache ---- *)

\* C24: a response from the cache carries a successful capture that is not
\* older than CACHE_TTL_MS
C24_ServedFresh ==
  (program = "cache" /\ served.from = "cache") =>
    /\ served.age <= CACHE_TTL_MS
    /\ served.buf = "png"

\* C24: every /run request either starts a new capture or is answered with
\* an entry that is not older than CACHE_TTL_MS, so a request for a key whose
\* entry has expired starts a new capture
C24_ExpiredRecaptured ==
  [][ (program = "cache" /\ runs' = runs + 1) =>
        \/ \E k \in Keys : inflight'[k] = inflight[k] + 1
        \/ /\ served'.from = "cache"
           /\ KeyIndex(cache, served'.key) # 0
           /\ now - cache[KeyIndex(cache, served'.key)].ts <= CACHE_TTL_MS ]_vars

\* C24: whatever the cache holds is a successful capture
C24_OnlyCaptures == \A i \in 1 .. Len(cache) : cache[i].buf = "png"

\* C24: nothing older than CACHE_TTL_MS is served from the cache, a request
\* for a key whose entry has expired starts a new capture, and only successful
\* captures are held and served
C24_CacheTtl == [](C24_ServedFresh /\ C24_OnlyCaptures) /\ C24_ExpiredRecaptured

\* an entry has expired, the request for its key was not answered from the
\* cache and its capture is in flight; an earlier request was answered from it
C24_Witness ==
  /\ program = "cache"
  /\ \E k \in Keys : /\ inflight[k] > 0
                     /\ KeyIndex(cache, k) = 0
                     /\ served = [key |-> k, from |-> "cache", buf |-> "png", age |-> CACHE_TTL_MS]
                     /\ now > CACHE_TTL_MS

\* the cache overflowed after a hit on its oldest entry
C23_Witness ==
  /\ program = "cache"
  /\ evicted # NoEviction
  /\ Len(cache) = CACHE_MAX


(* ---- C25: snapshot fetches of a chat are RATE_LIMIT_SECONDS apart ---- *)

\* C25: any two snapshot fetches started one after the other for the same chat
\* are at least RATE_LIMIT_SECONDS apart, whichever command started them
C25_FetchesApart ==
  program = "rate" =>
    \A c \in Chats : \A i, j \in 1 .. Len(fetchStarts[c]) :
      i < j => fetchStarts[c][j] - fetchStarts[c][i] >= RATE_LIMIT_SECONDS

\* C25 (the limiter alone): a send_snapshot_photo call that arrives less than
\* RATE_LIMIT_SECONDS after the last admitted one of its chat is refused
C25_LimiterRefuses ==
  [][ \A c \in Chats :
        (program = "rate" /\ admitted'[c] > admitted[c])
          => clock - LAST_SNAPSHOT_PER_CHAT[c] >= RATE_LIMIT_SECONDS ]_vars

(* ---- C26: startBrowser launches one Chromium at a time ---- *)

\* C26: the Chromium processes running and the launches in flight never
\* number more than one, whatever callers invoke startBrowser concurrently
C26_SingleChromium ==
  program = "service" => chromiums + Cardinality(Launching) <= 1

(* ---- C27: the executed trade is the trade that was shown ---- *)

\* C27: the trade handed to the macro has the pair, direction, amount and
\* expiry /trade validated and showed
C27_ExecutedAsShown ==
  (program = "confirm" /\ executed # NoTrade) => executed = shown

\* C27 (one field): the executed pair is the pair that was shown
C27_PairAsShown ==
  (program = "confirm" /\ executed # NoTrade) => executed.pair = shown.pair

(* ---- C28: a signal below MIN_CONFIDENCE is placed only on a 'yes' ---- *)

\* the signals that were pending when a 'yes' arrived
ConfirmedYes == { decide[q].found : q \in { p \in Decisions : decide[p].decision = "yes" } }

\* C28: a signal whose confidence is below MIN_CONFIDENCE reaches the trade
\* trigger only if a 'yes' decision arrived while it was pending; 'no' or no
\* decision never places it
C28_LowNeedsYes ==
  program = "pending" =>
    \A s \in Signals :
      (placed[s] > 0 /\ confidence[s] < MIN_CONFIDENCE) => s \in ConfirmedYes

\* a low-confidence signal was refused by a 'no', a second one was placed by a 'yes'
C28_Witness ==
  /\ program = "pending"
  /\ \E s, t \in Signals : /\ confidence[s] < MIN_CONFIDENCE /\ placed[s] = 0
                           /\ confidence[t] < MIN_CONFIDENCE /\ placed[t] = 1
                           /\ \E q \in Decisions : decide[q] = [pc |-> "done", decision |-> "no", found |-> s]
                           /\ \E q \in Decisions : decide[q] = [pc |-> "done", decision |-> "yes", found |-> t]

(* ---- C29: a decision is applied atomically to its pending trade ---- *)

\* C29: no signal is placed more than once, and no decision erases a pending
\* trade that was stored after the decision arrived
C29_DecisionAtomic ==
  program = "pending" =>
    /\ \A s \in Signals : placed[s] <= 1
    /\ wiped = { }

\* C29 (first half): no signal is placed more than once
C29_PlacedOnce == program = "pending" => \A s \in Signals : placed[s] <= 1

\* C29 (second half): no decision erases a newer pending trade
C29_NothingWiped == program = "pending" => wiped = { }

(* ---- C30: CONF:ok executes only a freshly completed flow ---- *)

\* C30: a trade is executed only when pair, direction, expiry, size mode and
\* size value have all been chosen since the flow was last reset or a trade
\* was last executed, so a repeated CONF:ok executes nothing
C30_FreshSelections ==
  [][ (program = "fsm" /\ trades' = trades + 1) => Needed \subseteq chosen ]_vars

\* C30 (first half): a trade is executed only when the five keys are stored
C30_CompleteOnly ==
  [][ (program = "fsm" /\ trades' = trades + 1) => Needed \subseteq USER_FSM ]_vars

\* C30 (second half): after an execution the flow is reset
C30_ResetAfterTrade ==
  [][ (program = "fsm" /\ trades' = trades + 1) => USER_FSM' = fsm_reset ]_vars

\* the slot counter of the program that runs and its cap
ActiveSlots == IF program = "micro" THEN activeCaptures ELSE queue_active

SlotCap == IF program = "micro" THEN MAX_CONCURRENT_CAPTURES ELSE MAX_CONCURRENT_PAGES

\* C34: in part_000 and part_002, whenever a request waits in the capture
\* queue the active count equals the cap; the count goes down only while
\* nobody waits, and a step that takes the head waiter off the queue gives it
\* the slot at once, the count staying at the cap.
C34_NoIdleSlot ==
  /\ [](CaptureService => (WaitQueue # << >> => ActiveSlots = SlotCap))
  /\ [][CaptureService =>
          /\ ActiveSlots' < ActiveSlots => WaitQueue = << >>
          /\ (WaitQueue # << >> /\ WaitQueue' = Tail(WaitQueue)) =>
               /\ Head(WaitQueue) \in Holders'
               /\ ActiveSlots' = ActiveSlots]_vars

\* C34 witness: a release has just handed its slot to the head waiter while
\* another request still waits: the count is at the cap, nobody arrived since
C34_Witness ==
  /\ CaptureService
  /\ WaitQueue # << >>
  /\ ActiveSlots = SlotCap
  /\ \E r \in Reqs : pc[r] = "done"
  /\ \E w \in Holders : tried[w] = << >> /\ \A q \in Queued : w[2] < q[2]

\* a step dispatches the trade of signal s to UI.Vision
Dispatch(s) == hook[s] # "posting" /\ hook'[s] = "posting"

\* C31: while auto-trade is switched off no trade of a webhook signal is
\* dispatched to UI.Vision, a retry of an earlier failed dispatch included.
C31_OffMeansNoDispatch ==
  [][\A s \in Hooks : (program = "auto" /\ Dispatch(s)) => autoTradeEnabled]_vars

\* C31 (first half): the first dispatch of a signal happens with the switch on
C31_FirstDispatchNeedsOn ==
  [][\A s \in Hooks :
       (program = "auto" /\ hook[s] = "notify" /\ Dispatch(s)) => autoTradeEnabled]_vars

\* C32: the retry chain a signal started stops: from some point on no post,
\* failure message or retry timer of any signal is pending.
C32_ChainStops ==
  <>[](\A s \in Hooks : hook[s] \in { "idle", "notify", "refused", "sent" })

\* C33: a trade recorded for a /trade prompt comes from a message of the chat
\* that issued the prompt, and no message is recorded for two prompts.
C33_OwnReplyOnly ==
  program = "prompt" =>
    \A t \in recorded :
      /\ t.from = t.prompt
      /\ \A u \in recorded : u.msg = t.msg => u = t

\* C33 (first half): the message a listener consumes is the first one the bot
\* receives after the listener was registered
C33_NextMessageConsumed ==
  [][(program = "prompt" /\ messages' = messages + 1) =>
       /\ \A p \in Chats : listeners'[p] = 0
       /\ \A p \in Chats :
            listeners[p] > 0 => \E t \in recorded' : t.prompt = p /\ t.msg = messages']_vars

====
